---- MODULE Spec2Model ----
(***************************************************************************)
(* A model of the two question-answering services of the repository:       *)
(*   "piagent"  src/testingdirectway/piagent.py  (variant 2, direct SQL)   *)
(*   "main"     src/cddpiagetdataqna/main.py     (variant 1, DataQnA)      *)
(* One of the two services runs in a behaviour (variable service).  Text   *)
(* is modelled as a sequence of one-character strings, so that strip(),    *)
(* startswith(), slicing and the regular expressions of the validator are  *)
(* computed character by character, as the code computes them.             *)
(***************************************************************************)
EXTENDS Integers, Sequences, FiniteSets, TLC

VARIABLES
    service,                    \* which of the two programs is running
    pc,                         \* position of the request handler
    vertex_ai_initialized,      \* module global of either service
    bq_client,                  \* piagent.py: module global, None or a client
    nlp_question,               \* request.question
    sql_model_reply,            \* generate_sql_from_nlp local: the text of the model's reply
    summary_response_text,      \* generate_business_summary: the text of the model's reply, before strip()
    executed_sql_query,         \* execute_bigquery_query parameter sql_query: the string the executor was called with
    job_results,                \* execute_bigquery_query local results: the rows BigQuery returned
    summary_prompt,             \* generate_business_summary local: the data context of its prompt
    generated_sql,              \* ask_nlp_query local
    query_results,              \* ask_nlp_query local
    df_content_for_response,    \* ask_nlp_query local
    is_valid_query_structure,   \* ask_nlp_query local
    is_safe_for_readonly,       \* ask_nlp_query local
    validation_error_message,   \* ask_nlp_query local
    health_response,            \* what /health answered last, since the last /ask request
    response,                   \* what the handler returned or raised
    trace,                      \* stages and external calls of the request so far
    data_qna_instance,          \* main.py: module global, None or the DataQnA object
    conversation_histories,     \* DataQnA field: conversation id -> messages
    last_processed_dataframe,   \* DataQnA field
    last_processed_chart_spec,  \* DataQnA field
    current_sql_query_from_data_message, \* DataQnA field
    request_payload,            \* ask_data_agent parameter
    current_conv_id,            \* ask_data_agent local
    current_history,            \* ask_question local
    replies_for_history,        \* ask_question local
    accumulated_final_text_parts, \* ask_question local
    data_qna_result,            \* ask_data_agent local
    requests_received,          \* /ask requests main.py has received
    messages_received,          \* messages DataQnA has streamed to main.py
    uuids_generated             \* conversation ids main.py has generated

vars == <<service, pc, vertex_ai_initialized, bq_client, nlp_question, sql_model_reply, summary_prompt,
          summary_response_text, job_results, executed_sql_query, generated_sql,
          query_results,
          df_content_for_response,
          is_valid_query_structure, is_safe_for_readonly,
          validation_error_message, response, health_response, trace,
          data_qna_instance, conversation_histories, last_processed_dataframe,
          last_processed_chart_spec, current_sql_query_from_data_message,
          request_payload, current_conv_id, current_history,
          replies_for_history, accumulated_final_text_parts, data_qna_result,
          requests_received, messages_received, uuids_generated>>

\* the state of main.py, which piagent.py does not have
dataqna_fields == <<last_processed_dataframe, last_processed_chart_spec,
                    current_sql_query_from_data_message>>
ask_question_locals == <<current_history, replies_for_history,
                         accumulated_final_text_parts>>
main_state == <<data_qna_instance, conversation_histories, dataqna_fields,
                request_payload, current_conv_id, ask_question_locals,
                data_qna_result, requests_received, messages_received, uuids_generated>>
\* the locals of ask_nlp_query, which main.py does not have
piagent_locals == <<bq_client, nlp_question, sql_model_reply, summary_prompt, summary_response_text,
                    job_results, executed_sql_query, generated_sql, query_results,
                    df_content_for_response, is_valid_query_structure,
                    is_safe_for_readonly, validation_error_message>>

-----------------------------------------------------------------------------
(* Optional values: Python's None and a present value.                     *)
None == <<>>
Some(v) == <<v>>
Val(o) == o[1]

-----------------------------------------------------------------------------
(* Characters and text.                                                    *)
LowerLetters == <<"a","b","c","d","e","f","g","h","i","j","k","l","m",
                  "n","o","p","q","r","s","t","u","v","w","x","y","z">>
UpperLetters == <<"A","B","C","D","E","F","G","H","I","J","K","L","M",
                  "N","O","P","Q","R","S","T","U","V","W","X","Y","Z">>
Digits == {"0","1","2","3","4","5","6","7","8","9"}

\* re.IGNORECASE: characters are compared after case folding.
Upper(c) ==
    IF \E i \in 1..26 : LowerLetters[i] = c
    THEN UpperLetters[CHOOSE i \in 1..26 : LowerLetters[i] = c]
    ELSE c

\* \s of the re module and the characters str.strip() removes.
IsSpaceChar(c) == c \in {" ", "\n", "\t", "\r"}

\* \w of the re module.
IsWordChar(c) ==
    \/ \E i \in 1..26 : c = LowerLetters[i] \/ c = UpperLetters[i]
    \/ c \in Digits
    \/ c = "_"

RECURSIVE LStrip(_)
LStrip(s) ==
    IF s = <<>> THEN s
    ELSE IF IsSpaceChar(Head(s)) THEN LStrip(Tail(s)) ELSE s

RECURSIVE RStrip(_)
RStrip(s) ==
    IF s = <<>> THEN s
    ELSE IF IsSpaceChar(s[Len(s)]) THEN RStrip(SubSeq(s, 1, Len(s) - 1)) ELSE s

\* str.strip()
Strip(s) == RStrip(LStrip(s))

\* str.startswith / str.endswith (case-sensitive)
StartsWith(s, p) == Len(s) >= Len(p) /\ SubSeq(s, 1, Len(p)) = p
EndsWith(s, p) == Len(s) >= Len(p) /\ SubSeq(s, Len(s) - Len(p) + 1, Len(s)) = p

\* the literal w (upper case) occurs in s at index i, ignoring case
MatchesAtCI(s, i, w) ==
    /\ i >= 1
    /\ i + Len(w) - 1 <= Len(s)
    /\ \A k \in 1..Len(w) : Upper(s[i + k - 1]) = w[k]

\* \b between s[p] and s[p+1] (p = 0 is the start, p = Len(s) the end)
WordBoundary(s, p) ==
    (p >= 1 /\ IsWordChar(s[p])) # (p < Len(s) /\ IsWordChar(s[p + 1]))

\* SearchWholeWordCI without the word boundaries (a substring match)
SearchSubstringCI(s, w) == \E i \in 1..Len(s) : MatchesAtCI(s, i, w)

\* re.search(r'\b' + w + r'\b', s, re.IGNORECASE) is not None
SearchWholeWordCI(s, w) ==
    \E i \in 1..Len(s) :
        /\ WordBoundary(s, i - 1)
        /\ MatchesAtCI(s, i, w)
        /\ WordBoundary(s, i + Len(w) - 1)

-----------------------------------------------------------------------------
(* The SQL validator of ask_nlp_query (piagent.py, lines 536-590).          *)

\* the keyword list of the scan, in the order the loop visits it
forbidden_keywords ==
    <<"INSERT", "UPDATE", "DELETE", "DROP", "CREATE",
      "ALTER", "TRUNCATE", "GRANT", "REVOKE", "MERGE">>

\* the characters of a keyword (the pattern text the regular expression is built from)
KeywordChars(k) ==
    CASE k = "INSERT" -> <<"I","N","S","E","R","T">>
      [] k = "UPDATE" -> <<"U","P","D","A","T","E">>
      [] k = "DELETE" -> <<"D","E","L","E","T","E">>
      [] k = "DROP" -> <<"D","R","O","P">>
      [] k = "CREATE" -> <<"C","R","E","A","T","E">>
      [] k = "ALTER" -> <<"A","L","T","E","R">>
      [] k = "TRUNCATE" -> <<"T","R","U","N","C","A","T","E">>
      [] k = "GRANT" -> <<"G","R","A","N","T">>
      [] k = "REVOKE" -> <<"R","E","V","O","K","E">>
      [] k = "MERGE" -> <<"M","E","R","G","E">>
      [] k = "SELECT" -> <<"S","E","L","E","C","T">>
      [] k = "WITH" -> <<"W","I","T","H">>

MsgEmpty == "LLM returned an empty SQL query."
MsgWithNoSelect == "SQL starts with WITH but does not contain a SELECT statement."
MsgMustStart == "Generated SQL must start with SELECT or WITH."
MsgGeneric == "Generated SQL failed validation (structure or safety)."
MsgKeyword(keyword) ==
    "Generated SQL contains a disallowed keyword: " \o keyword
        \o ". Only SELECT queries are permitted."

\* IsEmptySql without the strip(): only `not generated_sql`
IsEmptySqlUnstripped(sql) == sql = None \/ Val(sql) = <<>>

\* line 541: not generated_sql or not generated_sql.strip()
IsEmptySql(sql) == sql = None \/ Val(sql) = <<>> \/ Strip(Val(sql)) = <<>>

\* number of leading whitespace characters of s
RECURSIVE LeadingSpaces(_)
LeadingSpaces(s) ==
    IF s # <<>> /\ IsSpaceChar(Head(s)) THEN 1 + LeadingSpaces(Tail(s)) ELSE 0

\* MatchSelectOrWith without the trailing \b
MatchSelectOrWithPrefix(s) ==
    LET j == LeadingSpaces(s)
    IN  IF MatchesAtCI(s, j + 1, KeywordChars("SELECT")) THEN "SELECT"
        ELSE IF MatchesAtCI(s, j + 1, KeywordChars("WITH")) THEN "WITH"
        ELSE ""

\* lines 547-551: re.match(r"^\s*(SELECT|WITH)\b", s, re.IGNORECASE);
\* the upper-cased group 1, or "" when there is no match
MatchSelectOrWith(s) ==
    LET j == LeadingSpaces(s)
    IN  IF MatchesAtCI(s, j + 1, KeywordChars("SELECT")) /\ WordBoundary(s, j + 6)
        THEN "SELECT"
        ELSE IF MatchesAtCI(s, j + 1, KeywordChars("WITH")) /\ WordBoundary(s, j + 4)
        THEN "WITH"
        ELSE ""

\* lines 573-579: the loop over forbidden_keywords from index i on; the index of
\* the first keyword found as a whole word, or 0 when the loop runs to its end
\* a scan without the break: the last keyword found is the one reported
RECURSIVE ScanFromNoBreak(_, _)
ScanFromNoBreak(s, i) ==
    IF i > Len(forbidden_keywords) THEN 0
    ELSE LET later == ScanFromNoBreak(s, i + 1)
         IN  IF later # 0 THEN later
             ELSE IF SearchWholeWordCI(s, KeywordChars(forbidden_keywords[i])) THEN i
             ELSE 0

RECURSIVE ScanFrom(_, _)
ScanFrom(s, i) ==
    IF i > Len(forbidden_keywords) THEN 0
    ELSE IF SearchWholeWordCI(s, KeywordChars(forbidden_keywords[i])) THEN i
    ELSE ScanFrom(s, i + 1)

\* lines 567-579: the forbidden-keyword scan of a structurally valid string
KeywordScan(sql) ==
    LET normalized_sql_for_matching == Strip(sql)
        hit == ScanFrom(normalized_sql_for_matching, 1)
    IN  IF hit = 0
        THEN [safe |-> TRUE, message |-> "", keyword |-> ""]
        ELSE [safe |-> FALSE, message |-> MsgKeyword(forbidden_keywords[hit]),
              keyword |-> forbidden_keywords[hit]]

\* StructureCheck with the keyword scan run first (a precedence bug)
StructureCheckAfterScan(sql) ==
    IF ~KeywordScan(sql).safe
    THEN [valid |-> FALSE, message |-> KeywordScan(sql).message]
    ELSE IF MatchSelectOrWith(Strip(sql)) # ""
    THEN [valid |-> TRUE, message |-> ""]
    ELSE [valid |-> FALSE, message |-> MsgMustStart]

\* StructureCheck that never looks for SELECT after WITH
StructureCheckWithUnchecked(sql) ==
    IF MatchSelectOrWith(Strip(sql)) # ""
    THEN [valid |-> TRUE, message |-> ""]
    ELSE [valid |-> FALSE, message |-> MsgMustStart]

\* lines 546-560: the structure check on a non-empty string
\* a structure check that sets no message for a WITH without SELECT
StructureCheckSilent(sql) ==
    LET normalized_sql_for_matching == Strip(sql)
        first_keyword == MatchSelectOrWith(normalized_sql_for_matching)
    IN  IF first_keyword # ""
        THEN [valid |-> first_keyword # "WITH"
                    \/ SearchWholeWordCI(normalized_sql_for_matching, KeywordChars("SELECT")),
              message |-> ""]
        ELSE [valid |-> FALSE, message |-> MsgMustStart]

StructureCheck(sql) ==
    LET normalized_sql_for_matching == Strip(sql)
        first_keyword == MatchSelectOrWith(normalized_sql_for_matching)
    IN  IF first_keyword # ""
        THEN IF first_keyword = "WITH"
             THEN IF SearchWholeWordCI(normalized_sql_for_matching, KeywordChars("SELECT"))
                  THEN [valid |-> TRUE, message |-> ""]
                  ELSE [valid |-> FALSE, message |-> MsgWithNoSelect]
             ELSE [valid |-> TRUE, message |-> ""]
        ELSE [valid |-> FALSE, message |-> MsgMustStart]

-----------------------------------------------------------------------------
(* Bounds of the model and the inputs the environment supplies.            *)

MaxReplyLen == 3      \* fragments in one reply of the SQL model
MaxRows == 2          \* rows in one query result
MaxSqlLen == 3        \* fragments in a string handed to the validator directly

\* all sequences over S of length at most n
BoundedSeq(S, n) == UNION {[1..k -> S] : k \in 0..n}

RECURSIVE Flatten(_)
Flatten(ss) == IF ss = <<>> THEN <<>> ELSE Head(ss) \o Flatten(Tail(ss))

\* characters to a string value
RECURSIVE Join(_)
Join(s) == IF s = <<>> THEN "" ELSE Head(s) \o Join(Tail(s))

SELECTKW == <<"S","E","L","E","C","T">>
WITHKW == <<"W","I","T","H">>
DROPKW == <<"D","R","O","P">>
LOWERUPDATE == <<"u","p","d","a","t","e">>
\* the grave accent U+0060, one character of a markdown fence (written by name:
\* the character itself cannot appear in a TLA+ string)
Backtick == "[grave]"
Fence == <<Backtick, Backtick, Backtick>>
FenceSql == <<Backtick, Backtick, Backtick, "s", "q", "l">>

\* pieces of text a reply of the SQL model is made of
ReplyFragments ==
    { FenceSql, Fence, <<"\n">>, <<" ">>, <<";">>, <<"t">>,
      SELECTKW, WITHKW, DROPKW, LOWERUPDATE }

\* the reply the specification gives as an example: SELECT 1 on a line of its
\* own inside a fence
ExampleFencedReply ==
    FenceSql \o <<"\n">> \o SELECTKW \o <<" ", "1">> \o <<"\n">> \o Fence

Replies ==
    {Flatten(ss) : ss \in BoundedSeq(ReplyFragments, MaxReplyLen)} \cup {ExampleFencedReply}

Questions == {"total sales last week", "top programs"}

\* str(e) of the exceptions the external services raise, with the optional
\* attributes the handlers look at
ModelExceptions ==
    { [kind |-> "Exception", msg |-> "503 model overloaded", candidates |-> "", parts |-> ""],
      [kind |-> "Exception", msg |-> "blocked", candidates |-> "[c0]", parts |-> "[p0]"],
      [kind |-> "ValueError", msg |-> "no text in response", candidates |-> "", parts |-> ""] }

ModelInitErrors == {"model not found"}

\* BigQuery errors: str(e) and e.errors (a list of messages; "" is a falsy entry)
QueryExceptions ==
    { [msg |-> "Timeout", has_errors |-> FALSE, errors |-> <<>>],
      [msg |-> "400 Syntax error", has_errors |-> TRUE, errors |-> <<"Syntax error at [1:1]">>],
      [msg |-> "500 backend", has_errors |-> TRUE, errors |-> <<"">>],
      [msg |-> "403 denied", has_errors |-> TRUE, errors |-> <<>>] }

\* text the summary model replies with
SummaryReplies == { <<>>, <<" ">>, <<"S","a","l","e","s"," ","u","p",".","\n">> }

-----------------------------------------------------------------------------
(* Query results and the cell coercion of execute_bigquery_query.          *)

\* line 388: the default of generate_business_summary's sample size
max_rows_for_summary_context == 10
\* the longest result of the long results
MaxLongRows == 12

DateValue == [py |-> "date", y |-> 2024, m |-> 1, d |-> 5]
FloatValue == [py |-> "float", unscaled |-> 1000, scale |-> 0]
DecimalValue == [py |-> "Decimal", dec_unscaled |-> 1250, dec_scale |-> 2]
NoneValue == [py |-> "NoneType"]
DictValue == [py |-> "dict", repr |-> "{'a': 1}"]
BoolValue == [py |-> "bool", b |-> TRUE]
IntValue(i) == [py |-> "int", int |-> i]
TextValue == [py |-> "str", text |-> "EMEA"]
DateTimeValue == [py |-> "datetime", y |-> 2024, m |-> 1, d |-> 5, hh |-> 9, mm |-> 30, ss |-> 0]

\* rows as BigQuery returns them: every row of a result has the same columns
RawRowsTotal == { <<[key |-> "total", value |-> v]>> : v \in {FloatValue, DecimalValue, NoneValue} }
RawRowsDaily ==
    { <<[key |-> "day", value |-> DateValue], [key |-> "tags", value |-> v]>> :
        v \in {DictValue, BoolValue} }
\* results around the summarizer's sample size: row i carries the integer i
LongResults ==
    { [i \in 1..n |-> <<[key |-> "total", value |-> IntValue(i)]>>] :
        n \in (max_rows_for_summary_context - 1)..MaxLongRows }
RawRowsNamed ==
    { <<[key |-> "name", value |-> v], [key |-> "at", value |-> DateTimeValue]>> :
        v \in {TextValue, IntValue(7)} }
ResultSets ==
    BoundedSeq(RawRowsTotal, MaxRows) \cup BoundedSeq(RawRowsDaily, MaxRows)
        \cup BoundedSeq(RawRowsNamed, MaxRows) \cup LongResults

\* line 357: hasattr(value, 'isoformat')
HasIsoformat(value) == value.py \in {"date", "datetime"}

Pad2(n) == IF n < 10 THEN "0" \o ToString(n) ELSE ToString(n)

\* date.isoformat() and datetime.isoformat()
IsoFormat(value) ==
    ToString(value.y) \o "-" \o Pad2(value.m) \o "-" \o Pad2(value.d)
        \o (IF value.py = "datetime"
            THEN "T" \o Pad2(value.hh) \o ":" \o Pad2(value.mm) \o ":" \o Pad2(value.ss)
            ELSE "")

\* float(value) succeeds (line 365) for numeric types only
CanFloat(value) == value.py = "Decimal"

\* the float a decimal converts to: trailing zeros of the fraction carry no value
RECURSIVE FloatOfDecimal(_, _)
FloatOfDecimal(unscaled, scale) ==
    IF scale > 0 /\ unscaled % 10 = 0
    THEN FloatOfDecimal(unscaled \div 10, scale - 1)
    ELSE [py |-> "float", unscaled |-> unscaled, scale |-> scale]

\* a coercion that tries float() before it looks for a pass-through type
CoerceValueFloatFirst(value) ==
    IF HasIsoformat(value)
    THEN [py |-> "str", text |-> IsoFormat(value)]
    ELSE IF value.py \in {"Decimal", "bool", "int"}
    THEN [py |-> "float",
          unscaled |-> CASE value.py = "Decimal" -> value.dec_unscaled
                         [] value.py = "int" -> value.int
                         [] value.py = "bool" -> IF value.b THEN 1 ELSE 0,
          scale |-> IF value.py = "Decimal" THEN value.dec_scale ELSE 0]
    ELSE IF value.py \in {"float", "str", "NoneType"}
    THEN value
    ELSE [py |-> "str", text |-> value.repr]

\* lines 357-368: the coercion of one cell
CoerceValue(value) ==
    IF HasIsoformat(value)
    THEN [py |-> "str", text |-> IsoFormat(value)]
    ELSE IF value.py \in {"float", "int", "str", "bool", "NoneType"}
    THEN value
    ELSE IF CanFloat(value)
    THEN FloatOfDecimal(value.dec_unscaled, value.dec_scale)
    ELSE [py |-> "str", text |-> value.repr]

\* lines 355-369: the record built from one row
CoerceRow(row) ==
    [i \in 1..Len(row) |-> [key |-> row[i].key, value |-> CoerceValue(row[i].value)]]

\* the keys of a row, last column first
KeysReversed(row) == [i \in 1..Len(row) |-> row[Len(row) + 1 - i].key]

\* list(row.keys())
Keys(row) == [i \in 1..Len(row) |-> row[i].key]

\* a table that keeps the first row only
DataTableContentFirstRow(rows) ==
    [data |-> IF rows # <<>> THEN <<rows[1]>> ELSE <<>>,
     columns |-> IF rows # <<>> THEN Keys(rows[1]) ELSE <<>>]

\* lines 597-601 and 632-635: DataTableContent(data=..., columns=...)
DataTableContent(rows) ==
    [data |-> rows, columns |-> IF rows # <<>> THEN Keys(rows[1]) ELSE <<>>]

-----------------------------------------------------------------------------
(* The helpers of piagent.py, as functions of what the external service     *)
(* does.  Each returns [ok |-> TRUE, value |-> ...] or the HTTPException it *)
(* raises, [ok |-> FALSE, status, detail].                                  *)

Raise(status, detail) == [ok |-> FALSE, status |-> status, detail |-> detail]
Return(value) == [ok |-> TRUE, value |-> value]

\* lines 331-336 and 485-490: the text appended for e.candidates and e.parts
ExceptionExtras(e) ==
    (IF e.candidates # "" THEN " Candidates: " \o e.candidates ELSE "")
        \o (IF e.parts # "" THEN " Parts: " \o e.parts ELSE "")

\* fence removal that leaves the whitespace inside the fences in place
StripFencesUntrimmed(text) ==
    LET s1 == Strip(text)
        s2 == IF StartsWith(s1, FenceSql) THEN SubSeq(s1, 7, Len(s1))
              ELSE IF StartsWith(s1, Fence) THEN SubSeq(s1, 4, Len(s1))
              ELSE s1
    IN  IF EndsWith(s2, Fence) THEN SubSeq(s2, 1, Len(s2) - 3) ELSE s2

\* lines 303-312: strip, remove one leading fence, one trailing fence, strip
StripFences(text) ==
    LET s1 == Strip(text)
        s2 == IF StartsWith(s1, FenceSql) THEN SubSeq(s1, 7, Len(s1))
              ELSE IF StartsWith(s1, Fence) THEN SubSeq(s1, 4, Len(s1))
              ELSE s1
        s3 == IF EndsWith(s2, Fence) THEN SubSeq(s2, 1, Len(s2) - 3) ELSE s2
    IN  Strip(s3)

\* generate_sql_from_nlp that swallows a failure of the model and returns ""
generate_sql_swallowing(vertex_ok, outcome) ==
    IF vertex_ok /\ outcome.step = "reply"
    THEN Return(StripFences(outcome.text))
    ELSE Return(<<>>)

\* generate_sql_from_nlp (lines 262-338).  outcome is what the model service does:
\* [step |-> "init_error", msg], [step |-> "raise", exc] or [step |-> "reply", text]
generate_sql_from_nlp(vertex_ok, outcome) ==
    IF ~vertex_ok
    THEN Raise(503, "Vertex AI service not initialized or unavailable.")
    ELSE IF outcome.step = "init_error"
    THEN Raise(500, "Could not initialize LLM model for SQL generation: " \o outcome.msg)
    ELSE IF outcome.step = "raise"
    THEN IF outcome.exc.kind = "ValueError"
         THEN Raise(500, "LLM failed to generate valid SQL content: " \o outcome.exc.msg)
         ELSE Raise(500, "Error generating SQL from LLM: " \o outcome.exc.msg
                            \o ExceptionExtras(outcome.exc))
    ELSE Return(StripFences(outcome.text))

\* an error message that leaves out what the executor reported
ExecutionErrorMessageBare(e) == "Error executing BigQuery query."

\* lines 376-378: the message of an execution error
ExecutionErrorMessage(e) ==
    "Error executing BigQuery query: " \o e.msg
        \o (IF e.has_errors /\ e.errors # <<>>
            THEN "; Details: " \o (IF e.errors[1] # "" THEN e.errors[1] ELSE "Unknown BQ error")
            ELSE "")

\* execute_bigquery_query (lines 341-380).  outcome is what BigQuery does:
\* [step |-> "rows", rows] or [step |-> "raise", exc, fetched] (an error after
\* `fetched` rows were read)
execute_bigquery_query(client, sql_query, outcome) ==
    IF client = None
    THEN Raise(503, "BigQuery client not initialized or unavailable.")
    ELSE IF sql_query = None \/ Val(sql_query) = <<>>
    THEN Raise(400, "No SQL query provided for execution.")
    ELSE IF outcome.step = "raise"
    THEN Raise(500, ExecutionErrorMessage(outcome.exc))
    ELSE Return([i \in 1..Len(outcome.rows) |-> CoerceRow(outcome.rows[i])])

\* generate_business_summary that lets a failure of the model escape as its text
\* a sample that is the whole result
RowsToShowAll(query_results_list) == query_results_list

\* line 408: query_results[:max_rows_for_summary_context]
RowsToShow(query_results_list) ==
    SubSeq(query_results_list, 1,
           IF Len(query_results_list) < max_rows_for_summary_context
           THEN Len(query_results_list) ELSE max_rows_for_summary_context)

\* lines 405-421: context_data_str, one record per line of the text
ContextData(query_results_list) ==
    LET num_total_rows == Len(query_results_list)
        rows_to_show == RowsToShow(query_results_list)
    IN  IF num_total_rows > 0
        THEN (IF rows_to_show # <<>>
              THEN <<[line |-> "Column Names", names |-> Keys(rows_to_show[1])],
                     [line |-> "Sample Data", shown |-> Len(rows_to_show),
                      total |-> num_total_rows]>>
                   \o [i \in 1..Len(rows_to_show) |->
                          [line |-> "Row", idx |-> i, data |-> rows_to_show[i]]]
              ELSE <<>>)
             \o (IF num_total_rows > max_rows_for_summary_context
                 THEN <<[line |-> "more rows",
                         count |-> num_total_rows - max_rows_for_summary_context]>>
                 ELSE <<>>)
             \o <<[line |-> "Total rows retrieved", count |-> num_total_rows]>>
        ELSE <<[line |-> "The query returned no data (0 rows)."]>>

\* lines 390-460: the prompt exists once the model object does
SummaryPrompt(vertex_ok, rows, outcome) ==
    IF vertex_ok /\ outcome.step \in {"raise", "reply"}
    THEN Some(ContextData(rows))
    ELSE None

\* lines 472-476: summary_text as read from the response of the model call
SummaryText(vertex_ok, outcome) ==
    IF vertex_ok /\ outcome.step = "reply" THEN Some(outcome.text) ELSE None

\* a summarizer that returns the stripped reply even when nothing is left of it
generate_business_summary_blank(vertex_ok, rows, outcome) ==
    IF ~vertex_ok
    THEN "Retrieved " \o ToString(Len(rows))
            \o " records. Summary generation failed: Vertex AI unavailable."
    ELSE IF outcome.step = "init_error"
    THEN "Retrieved " \o ToString(Len(rows))
            \o " records. Error initializing summary model: " \o outcome.msg
    ELSE IF outcome.step = "raise"
    THEN "Successfully retrieved " \o ToString(Len(rows))
            \o " records. An error occurred while generating a business summary: "
            \o outcome.exc.msg \o ExceptionExtras(outcome.exc)
    ELSE Join(Strip(outcome.text))

generate_business_summary_bare(vertex_ok, rows, outcome) ==
    IF vertex_ok /\ outcome.step = "reply" /\ Strip(outcome.text) # <<>>
    THEN Join(Strip(outcome.text))
    ELSE "Summary generation failed."

\* generate_business_summary (lines 383-491).  outcome is what the model service
\* does: [step |-> "init_error", msg], [step |-> "raise", exc] or [step |-> "reply", text]
generate_business_summary(vertex_ok, rows, outcome) ==
    IF ~vertex_ok
    THEN "Retrieved " \o ToString(Len(rows))
            \o " records. Summary generation failed: Vertex AI unavailable."
    ELSE IF outcome.step = "init_error"
    THEN "Retrieved " \o ToString(Len(rows))
            \o " records. Error initializing summary model: " \o outcome.msg
    ELSE IF outcome.step = "raise"
    THEN "Successfully retrieved " \o ToString(Len(rows))
            \o " records. An error occurred while generating a business summary: "
            \o outcome.exc.msg \o ExceptionExtras(outcome.exc)
    ELSE LET summary_text == Strip(outcome.text)
         IN  IF summary_text # <<>>
             THEN Join(summary_text)
             ELSE "Retrieved " \o ToString(Len(rows))
                     \o " records, but could not generate a specific summary."

\* what a generative-model call can do
GenerationOutcomes(texts) ==
    {[step |-> "init_error", msg |-> m] : m \in ModelInitErrors}
        \cup {[step |-> "raise", exc |-> e] : e \in ModelExceptions}
        \cup {[step |-> "reply", text |-> t] : t \in texts}

\* what a BigQuery job can do
QueryOutcomes ==
    {[step |-> "rows", rows |-> r] : r \in ResultSets}
        \cup {[step |-> "raise", exc |-> e, fetched |-> n] : e \in QueryExceptions, n \in 0..MaxRows}

-----------------------------------------------------------------------------
(* The /ask handler of piagent.py, ask_nlp_query, one action per stage.    *)

globals == <<service, vertex_ai_initialized, bq_client>>
verdict == <<is_valid_query_structure, is_safe_for_readonly, validation_error_message>>

\* QueryResponse(...) returned with HTTP 200
QueryResponse(query, sql_query, dataframe_content, answer) ==
    [status |-> 200, query |-> query, sql_query |-> sql_query,
     dataframe_content |-> dataframe_content, answer |-> answer]

\* an HTTPException that leaves the handler: the transport error the client gets
TransportError(status, detail) == [status |-> status, detail |-> detail]

\* an except HTTPException clause that raises the error again
HTTPExceptionReraised(query, sql, df, detail) == TransportError(500, detail)

\* lines 614-624: except HTTPException
HTTPExceptionResponse(query, sql, df, detail) == QueryResponse(query, sql, df, detail)

\* lines 625-642: except Exception
UnexpectedErrorResponse(query, sql, results, df, err) ==
    QueryResponse(query, sql,
                  IF results # None /\ df = None
                  THEN Some(DataTableContent(Val(results)))
                  ELSE df,
                  "An unexpected server error occurred: " \o err \o ".")

\* main.py before its startup event: lines 257-258, and the fields a DataQnA
\* object is constructed with (lines 280-284)
InitMainState ==
    /\ data_qna_instance = None
    /\ conversation_histories = <<>>
    /\ last_processed_dataframe = None
    /\ last_processed_chart_spec = None
    /\ current_sql_query_from_data_message = None
    /\ request_payload = None
    /\ current_conv_id = ""
    /\ current_history = <<>>
    /\ replies_for_history = <<>>
    /\ accumulated_final_text_parts = <<>>
    /\ data_qna_result = None
    /\ requests_received = 0
    /\ messages_received = 0
    /\ uuids_generated = 0

Init ==
    /\ service \in {"piagent", "main"}
    /\ pc = "boot"
    /\ vertex_ai_initialized = FALSE
    /\ bq_client = None
    /\ nlp_question = ""
    /\ sql_model_reply = None
    /\ summary_prompt = None
    /\ job_results = None
    /\ executed_sql_query = None
    /\ summary_response_text = None
    /\ generated_sql = None
    /\ query_results = None
    /\ df_content_for_response = None
    /\ is_valid_query_structure = FALSE
    /\ is_safe_for_readonly = TRUE
    /\ validation_error_message = ""
    /\ response = None
    /\ health_response = None
    /\ trace = <<>>
    /\ InitMainState

\* startup_event (lines 213-233): each client initialises or fails to
PiagentStartup ==
    /\ service = "piagent"
    /\ pc = "boot"
    /\ \E vertex_ok \in BOOLEAN, bq_ok \in BOOLEAN :
        /\ vertex_ai_initialized' = vertex_ok
        /\ bq_client' = IF bq_ok THEN Some("bigquery.Client") ELSE None
    /\ pc' = "idle"
    /\ UNCHANGED <<service, nlp_question, generated_sql, query_results,
                   df_content_for_response, verdict, response, trace>>
    /\ UNCHANGED <<main_state, sql_model_reply, summary_prompt, summary_response_text, job_results, executed_sql_query>>
    /\ UNCHANGED health_response

\* availability guards that look at Vertex AI only
AvailabilityGuardVertexOnly(vertex_ok, client) ==
    IF ~vertex_ok
    THEN Some(TransportError(503, "Vertex AI service failed to initialize on startup."))
    ELSE None

\* lines 519-524: the availability guards; the transport error raised, if any
AvailabilityGuard(vertex_ok, client) ==
    IF ~vertex_ok
    THEN Some(TransportError(503, "Vertex AI service failed to initialize on startup."))
    ELSE IF client = None
    THEN Some(TransportError(503, "BigQuery client failed to initialize on startup."))
    ELSE None

\* lines 515-528: a request arrives; the availability guards; the locals
AskReceive ==
    /\ service = "piagent"
    /\ pc \in {"idle", "done"}
    /\ \E q \in Questions : nlp_question' = q
    /\ sql_model_reply' = None
    /\ summary_prompt' = None
    /\ job_results' = None
    /\ executed_sql_query' = None
    /\ summary_response_text' = None
    /\ generated_sql' = None
    /\ query_results' = None
    /\ df_content_for_response' = None
    /\ is_valid_query_structure' = FALSE
    /\ is_safe_for_readonly' = TRUE
    /\ validation_error_message' = ""
    /\ response' = AvailabilityGuard(vertex_ai_initialized, bq_client)
    /\ IF AvailabilityGuard(vertex_ai_initialized, bq_client) # None
       THEN /\ pc' = "done"
            /\ trace' = <<"receive", "respond">>
       ELSE /\ pc' = "schema"
            /\ trace' = <<"receive">>
    /\ UNCHANGED globals
    /\ UNCHANGED main_state
    /\ health_response' = None

\* lines 532-533 with get_bigquery_table_schema (lines 240-245): the table asked
\* for is always the configured one, whose description is a constant
AskSchemaLookup ==
    /\ service = "piagent"
    /\ pc = "schema"
    /\ IF bq_client = None
       THEN /\ response' = Some(HTTPExceptionResponse(nlp_question, generated_sql,
                    df_content_for_response,
                    "BigQuery client not initialized or unavailable."))
            /\ pc' = "done"
            /\ trace' = trace \o <<"schema", "respond">>
       ELSE /\ response' = response
            /\ pc' = "generate"
            /\ trace' = Append(trace, "schema")
    /\ UNCHANGED <<globals, nlp_question, generated_sql, query_results,
                   df_content_for_response, verdict>>
    /\ UNCHANGED <<main_state, sql_model_reply, summary_prompt, summary_response_text, job_results, executed_sql_query>>
    /\ UNCHANGED health_response

\* the external calls generate_sql_from_nlp makes for an outcome
SqlModelCallsRetrying(outcome) ==
    CASE outcome.step = "init_error" -> <<"sql_model:init_error">>
      [] outcome.step = "raise" -> <<"call:sql_model", "sql_model:error", "call:sql_model">>
      [] outcome.step = "reply" -> <<"call:sql_model">>

SqlModelCalls(outcome) ==
    CASE outcome.step = "init_error" -> <<"sql_model:init_error">>
      [] outcome.step = "raise" -> <<"call:sql_model", "sql_model:error">>
      [] outcome.step = "reply" -> <<"call:sql_model">>

\* line 534 with generate_sql_from_nlp
AskGenerate ==
    /\ service = "piagent"
    /\ pc = "generate"
    /\ \E outcome \in GenerationOutcomes(Replies) :
        LET r == generate_sql_from_nlp(vertex_ai_initialized, outcome)
        IN  IF r.ok
            THEN /\ generated_sql' = Some(r.value)
                 /\ sql_model_reply' = IF outcome.step = "reply"
                                       THEN Some(outcome.text) ELSE None
                 /\ response' = response
                 /\ pc' = "v_empty"
                 /\ trace' = trace \o <<"generate">> \o SqlModelCalls(outcome)
            ELSE /\ generated_sql' = generated_sql
                 /\ sql_model_reply' = sql_model_reply
                 /\ response' = Some(HTTPExceptionResponse(nlp_question, generated_sql,
                        df_content_for_response, r.detail))
                 /\ pc' = "done"
                 /\ trace' = trace \o <<"generate">> \o SqlModelCalls(outcome)
                        \o <<"respond">>
    /\ UNCHANGED <<globals, nlp_question, query_results, df_content_for_response, verdict>>
    /\ UNCHANGED <<main_state, summary_prompt, summary_response_text, job_results, executed_sql_query>>
    /\ UNCHANGED health_response

\* lines 537-545: the verdict's initial values and the empty check
AskCheckEmpty ==
    /\ pc = "v_empty"
    /\ is_valid_query_structure' = FALSE
    /\ is_safe_for_readonly' = TRUE
    /\ IF IsEmptySql(generated_sql)
       THEN /\ validation_error_message' = MsgEmpty
            /\ pc' = "v_decide"
       ELSE /\ validation_error_message' = ""
            /\ pc' = "v_structure"
    /\ trace' = Append(trace, "validate:empty")
    /\ UNCHANGED <<globals, nlp_question, generated_sql, query_results,
                   df_content_for_response, response>>
    /\ UNCHANGED <<main_state, sql_model_reply, summary_prompt, summary_response_text, job_results, executed_sql_query>>
    /\ UNCHANGED health_response

\* lines 546-564: the structure check
AskCheckStructure ==
    /\ pc = "v_structure"
    /\ LET c == StructureCheck(Val(generated_sql))
       IN  /\ is_valid_query_structure' = c.valid
           /\ validation_error_message' = c.message
           /\ pc' = IF c.valid THEN "v_scan" ELSE "v_decide"
    /\ trace' = Append(trace, "validate:structure")
    /\ UNCHANGED <<globals, nlp_question, generated_sql, query_results,
                   df_content_for_response, is_safe_for_readonly, response>>
    /\ UNCHANGED <<main_state, sql_model_reply, summary_prompt, summary_response_text, job_results, executed_sql_query>>
    /\ UNCHANGED health_response

\* lines 566-579: the forbidden-keyword scan
AskScanKeywords ==
    /\ pc = "v_scan"
    /\ LET k == KeywordScan(Val(generated_sql))
       IN  /\ is_safe_for_readonly' = k.safe
           /\ validation_error_message' =
                IF k.safe THEN validation_error_message ELSE k.message
    /\ pc' = "v_decide"
    /\ trace' = Append(trace, "validate:keywords")
    /\ UNCHANGED <<globals, nlp_question, generated_sql, query_results,
                   df_content_for_response, is_valid_query_structure, response>>
    /\ UNCHANGED <<main_state, sql_model_reply, summary_prompt, summary_response_text, job_results, executed_sql_query>>
    /\ UNCHANGED health_response

\* Rejected with `and` in place of `or`
RejectedBoth(valid, safe) == ~valid /\ ~safe

\* line 581: the verdict rejects
Rejected(valid, safe) == ~valid \/ ~safe

\* lines 582-583: the message of a rejection
RejectionMessage(message) == IF message = "" THEN MsgGeneric ELSE message

\* lines 581-593: reject with a response, or go on to execution
AskDecide ==
    /\ pc = "v_decide"
    /\ IF Rejected(is_valid_query_structure, is_safe_for_readonly)
       THEN /\ validation_error_message' = RejectionMessage(validation_error_message)
            /\ response' = Some(QueryResponse(nlp_question, generated_sql, None,
                    RejectionMessage(validation_error_message)))
            /\ pc' = "done"
            /\ trace' = trace \o <<"validate:reject", "respond">>
       ELSE /\ validation_error_message' = validation_error_message
            /\ response' = response
            /\ pc' = "execute"
            /\ trace' = Append(trace, "validate:accept")
    /\ UNCHANGED <<globals, nlp_question, generated_sql, query_results,
                   df_content_for_response, is_valid_query_structure,
                   is_safe_for_readonly>>
    /\ UNCHANGED <<main_state, sql_model_reply, summary_prompt, summary_response_text, job_results, executed_sql_query>>
    /\ UNCHANGED health_response

\* the external calls execute_bigquery_query makes for an outcome
QueryCalls(client, sql_query, outcome) ==
    IF client # None /\ sql_query # None /\ Val(sql_query) # <<>>
    THEN IF outcome.step = "raise"
         THEN <<"call:bigquery">> \o [i \in 1..outcome.fetched |-> "bigquery:row"]
                \o <<"bigquery:error">>
         ELSE <<"call:bigquery">> \o [i \in 1..Len(outcome.rows) |-> "bigquery:row"]
    ELSE <<>>

\* lines 593-601 with execute_bigquery_query
\* an executor that is handed the SQL in upper case
ExecutorArgumentUpper(sql) ==
    IF sql = None THEN None ELSE Some([i \in 1..Len(Val(sql)) |-> Upper(Val(sql)[i])])

\* line 594: execute_bigquery_query(generated_sql)
ExecutorArgument(sql) == sql

AskExecute ==
    /\ pc = "execute"
    /\ executed_sql_query' = ExecutorArgument(generated_sql)
    /\ \E outcome \in QueryOutcomes :
        LET r == execute_bigquery_query(bq_client, ExecutorArgument(generated_sql), outcome)
        IN  IF r.ok
            THEN /\ query_results' = Some(r.value)
                 /\ job_results' = Some(outcome.rows)
                 /\ df_content_for_response' = Some(DataTableContent(r.value))
                 /\ response' = response
                 /\ pc' = "summarize"
                 /\ trace' = trace \o <<"execute">> \o QueryCalls(bq_client, ExecutorArgument(generated_sql), outcome)
            ELSE /\ query_results' = query_results
                 /\ job_results' = job_results
                 /\ df_content_for_response' = df_content_for_response
                 /\ response' = Some(HTTPExceptionResponse(nlp_question, generated_sql,
                        df_content_for_response, r.detail))
                 /\ pc' = "done"
                 /\ trace' = trace \o <<"execute">> \o QueryCalls(bq_client, ExecutorArgument(generated_sql), outcome)
                        \o <<"respond">>
    /\ UNCHANGED <<globals, nlp_question, generated_sql, verdict>>
    /\ UNCHANGED <<main_state, sql_model_reply, summary_prompt, summary_response_text>>
    /\ UNCHANGED health_response

\* errors that escape generate_business_summary: its prompt is assembled and
\* logged outside its try blocks (lines 405-461)
SummaryAssemblyErrors == {"prompt assembly failed"}

\* the external calls generate_business_summary makes for an outcome
SummaryModelCalls(vertex_ok, outcome) ==
    CASE ~vertex_ok -> <<>>
      [] vertex_ok /\ outcome.step = "init_error" -> <<"summary_model:init_error">>
      [] vertex_ok /\ outcome.step = "raise" -> <<"call:summary_model", "summary_model:error">>
      [] vertex_ok /\ outcome.step = "reply" -> <<"call:summary_model">>

\* lines 603-612 with generate_business_summary, and lines 625-642 when an
\* error escapes the summarizer
AskSummarize ==
    /\ pc = "summarize"
    /\ \/ \E outcome \in GenerationOutcomes(SummaryReplies) :
            LET business_summary ==
                    generate_business_summary(vertex_ai_initialized,
                        IF query_results # None THEN Val(query_results) ELSE <<>>,
                        outcome)
            IN  /\ response' = Some(QueryResponse(nlp_question, generated_sql,
                        df_content_for_response, business_summary))
                /\ summary_response_text' = SummaryText(vertex_ai_initialized, outcome)
                /\ summary_prompt' = SummaryPrompt(vertex_ai_initialized,
                        IF query_results # None THEN Val(query_results) ELSE <<>>,
                        outcome)
                /\ trace' = trace \o <<"summarize">>
                        \o SummaryModelCalls(vertex_ai_initialized, outcome)
                        \o <<"respond">>
       \/ \E err \in SummaryAssemblyErrors :
            /\ response' = Some(UnexpectedErrorResponse(nlp_question, generated_sql,
                    query_results, df_content_for_response, err))
            /\ summary_prompt' = None
            /\ summary_response_text' = None
            /\ trace' = trace \o <<"summarize", "summary:escaped", "respond">>
    /\ pc' = "done"
    /\ UNCHANGED <<globals, nlp_question, generated_sql, query_results,
                   df_content_for_response, verdict>>
    /\ UNCHANGED <<main_state, sql_model_reply, job_results, executed_sql_query>>
    /\ UNCHANGED health_response

\* lines 647-671: GET /health of piagent.py, overall status not degraded by the probe
health_check_ignoring_probe(client, vertex_ok, probe) ==
    LET bq_ok == client # None
    IN  [status_code |-> 200,
         status |-> IF bq_ok /\ vertex_ok THEN "ok" ELSE "error",
         services |->
            [bigquery_client |-> IF bq_ok THEN "ok" ELSE "unavailable",
             vertex_ai_initialized |-> IF vertex_ok THEN "ok" ELSE "unavailable",
             sql_generation_temperature |-> "SQL_GENERATION_TEMPERATURE",
             summary_generation_temperature |-> "SUMMARY_GENERATION_TEMPERATURE",
             bigquery_connectivity |->
                IF bq_ok THEN (IF probe = "ok" THEN "ok" ELSE "error")
                ELSE "not_tested (client unavailable)"]]

\* lines 647-671: GET /health of piagent.py; probe is what the SELECT 1 sent to
\* BigQuery does, "ok" or "raise"
health_check(client, vertex_ok, probe) ==
    LET bq_ok == client # None
        overall_status == IF bq_ok /\ vertex_ok THEN "ok" ELSE "error"
    IN  [status_code |-> 200,
         status |-> IF bq_ok /\ probe = "raise" THEN "error" ELSE overall_status,
         services |->
            [bigquery_client |-> IF bq_ok THEN "ok" ELSE "unavailable",
             vertex_ai_initialized |-> IF vertex_ok THEN "ok" ELSE "unavailable",
             sql_generation_temperature |-> "SQL_GENERATION_TEMPERATURE",
             summary_generation_temperature |-> "SUMMARY_GENERATION_TEMPERATURE",
             bigquery_connectivity |->
                IF bq_ok THEN (IF probe = "ok" THEN "ok" ELSE "error")
                ELSE "not_tested (client unavailable)"]]

ProbeOutcomes == {"ok", "raise"}

\* GET /health, served between two /ask requests: the handlers are coroutines
\* that do not await
PiagentHealthCheck ==
    /\ service = "piagent"
    /\ pc \in {"idle", "done"}
    /\ \E probe \in ProbeOutcomes :
        health_response' = Some(health_check(bq_client, vertex_ai_initialized, probe))
    /\ UNCHANGED <<service, pc, vertex_ai_initialized, piagent_locals, response, trace,
                   main_state>>

PiagentNext ==
    \/ PiagentHealthCheck
    \/ PiagentStartup
    \/ AskReceive
    \/ AskSchemaLookup
    \/ AskGenerate
    \/ AskCheckEmpty
    \/ AskCheckStructure
    \/ AskScanKeywords
    \/ AskDecide
    \/ AskExecute
    \/ AskSummarize

-----------------------------------------------------------------------------
(* The service of main.py: the DataQnA class, the secondary reasoner and    *)
(* the /ask handler ask_data_agent.  The handler is a coroutine that never  *)
(* awaits (lines 1107-1222) and the server is one process (lines 1262-1263),*)
(* so one request is handled to its end before the next one starts.         *)

MaxRequests == 2      \* /ask requests main.py receives
MaxMessages == 2      \* messages DataQnA streams to main.py, over all requests

\* a Message of the DataQnA API is a user message or a system message
UserMessage(text) == [user_message |-> Some(text), system_message |-> None]
SystemMessage(m) == [user_message |-> None, system_message |-> Some(m)]

\* the payloads of a system message; a field that is not set is falsy
TextMessage(parts) == SystemMessage([text |-> parts, data |-> None, chart |-> None])
DataMessage(sql, result) ==
    SystemMessage([text |-> <<>>, chart |-> None,
                   data |-> Some([generated_sql |-> sql, result |-> result])])
ChartMessage(vega_config) ==
    SystemMessage([text |-> <<>>, data |-> None, chart |-> Some(vega_config)])

\* the parts of a text message; the empty part is falsy and is skipped
SalesTextParts == << <<" ", "S", "a", "l", "e", "s">>, <<>>, <<" ", "u", "p", ".", " ">> >>
BlankTextParts == << <<" ">>, <<"\n">> >>

DataQnASql == "SELECT program, sales FROM t"
StrValue == [py |-> "str", text |-> "A"]
ProgramRows == << <<[key |-> "program", value |-> StrValue], [key |-> "sales", value |-> FloatValue]>> >>
BarChart == [mark |-> "bar"]

\* a result without a schema whose one row is an empty struct: no field names
UnnamedRows == [fields |-> <<>>, data |-> << <<>> >>]

\* what DataQnA streams: text, a query with its rows, a query alone (its
\* result is the empty default of the message), a query whose rows have no
\* field names, a chart
StreamMessages ==
    { TextMessage(SalesTextParts),
      TextMessage(BlankTextParts),
      DataMessage(DataQnASql, Some([fields |-> <<"program", "sales">>, data |-> ProgramRows])),
      DataMessage(DataQnASql, Some([fields |-> <<>>, data |-> <<>>])),
      DataMessage(DataQnASql, Some(UnnamedRows)),
      ChartMessage(Some(BarChart)) }

\* str(e) of what the DataQnA call or its stream raises
StreamExceptions == {"503 DataQnA unavailable"}

\* what AskQuestionRequest(...) does (line 426): it succeeds, raises the
\* ValueError the code catches, or raises something else
RequestOutcomes ==
    { [step |-> "ok"],
      [step |-> "ValueError", msg |-> "Unknown field for AskQuestionRequest"],
      [step |-> "raise", msg |-> "bad message type"] }

\* text the reasoning model replies with
ReasoningReplies == { <<>>, <<"U", "p", " ", "1", "0", ".", "\n">> }

\* errors that escape reason_on_dataqna_output_with_gemini: its prompt is
\* assembled outside its try blocks (lines 567-641)
ReasoningAssemblyErrors == {"Object of type int64 is not JSON serializable"}

\* lines 46-47
REASONING_MODEL_NAME == "gemini-2.5-pro-preview-03-25"

\* the question never decides what main.py does: one is enough
DataAgentQuestions == {"total sales last week"}

\* QuestionRequest (lines 674-684); debug_mode only switches printing on
QuestionRequests ==
    [question : DataAgentQuestions,
     conversation_id : {None, Some("c1")},
     debug_mode : {FALSE},
     reset_conversation : BOOLEAN,
     enable_secondary_reasoning : BOOLEAN]

\* an id generator that returns an id a client uses
Uuid4Reused(n) == "c1"

\* str(uuid.uuid4()) (line 1109): an id no client supplied and no earlier
\* call returned
Uuid4(n) == "uuid-" \o ToString(n)

\* dict.get(key, default) on a map kept as a function
Get(map, key, default) == IF key \in DOMAIN map THEN map[key] ELSE default

\* converted_row.get(field) (line 369) on a row kept as key/value pairs
RECURSIVE RowGet(_, _)
RowGet(row, field) ==
    IF row = <<>> THEN NoneValue
    ELSE IF Head(row).key = field THEN Head(row).value
    ELSE RowGet(Tail(row), field)

\* DataQnA._handle_data_response_for_df (lines 333-390): the SQL and the
\* dataframe the fields hold after a data payload
handle_data_response_for_df(payload, sql, dataframe) ==
    LET sql1 == IF payload.generated_sql # "" THEN Some(payload.generated_sql) ELSE sql
        dataframe1 ==
            IF payload.result = None
            THEN dataframe
            ELSE LET result == Val(payload.result)
                     fields == IF result.fields # <<>> THEN result.fields
                               ELSE IF result.data # <<>> THEN Keys(result.data[1])
                               ELSE <<>>
                 IN  IF result.data = <<>>
                     THEN Some([columns |-> result.fields, data |-> <<>>])
                     ELSE IF fields = <<>>
                     THEN dataframe
                     ELSE Some([columns |-> fields,
                                data |-> [r \in 1..Len(result.data) |->
                                    [i \in 1..Len(fields) |->
                                        [key |-> fields[i],
                                         value |-> RowGet(result.data[r], fields[i])]]]])
    IN  [sql |-> sql1, dataframe |-> dataframe1]

\* lines 453-455: the data payload of a streamed message, if any
DataOf(msg) ==
    IF msg.system_message # None /\ Val(msg.system_message).data # None
    THEN Val(msg.system_message).data
    ELSE None

\* lines 456-463: the chart specification a streamed message carries, if any
ChartOf(msg) ==
    IF msg.system_message # None /\ Val(msg.system_message).chart # None
    THEN Val(Val(msg.system_message).chart)
    ELSE None

\* lines 464-473: the non-empty text parts of a streamed message
RECURSIVE NonEmptyParts(_)
NonEmptyParts(parts) ==
    IF parts = <<>> THEN <<>>
    ELSE (IF Head(parts) # <<>> THEN <<Head(parts)>> ELSE <<>>) \o NonEmptyParts(Tail(parts))
TextPartsOf(msg) ==
    IF msg.system_message # None
    THEN NonEmptyParts(Val(msg.system_message).text)
    ELSE <<>>

\* a reset that forgets every conversation
reset_conversation_all(histories, conversation_id) == <<>>

\* DataQnA.reset_conversation (lines 392-396)
reset_conversation(histories, conversation_id) ==
    IF conversation_id # "" /\ conversation_id \in DOMAIN histories
    THEN [c \in DOMAIN histories \ {conversation_id} |-> histories[c]]
    ELSE histories

\* a history write that forgets what the conversation held before
StoreHistoryOverwriting(histories, conversation_id, history, input_message, replies) ==
    [c \in DOMAIN histories \cup {conversation_id} |->
        IF c = conversation_id THEN <<input_message>> \o replies ELSE histories[c]]

\* a history write that leaves out the user's input message
StoreHistoryRepliesOnly(histories, conversation_id, history, input_message, replies) ==
    [c \in DOMAIN histories \cup {conversation_id} |->
        IF c = conversation_id THEN history \o replies ELSE histories[c]]

\* lines 483-485: the history map after a stream that ended without an error
StoreHistory(histories, conversation_id, history, input_message, replies) ==
    IF conversation_id # ""
    THEN [c \in DOMAIN histories \cup {conversation_id} |->
            IF c = conversation_id
            THEN history \o <<input_message>> \o replies
            ELSE histories[c]]
    ELSE histories

\* the dict ask_question returns
AskQuestionResult(answer, dataframe_content, vega_lite_spec, sql_query, conversation_id) ==
    [answer |-> answer, dataframe_content |-> dataframe_content,
     vega_lite_spec |-> vega_lite_spec, sql_query |-> sql_query,
     conversation_id |-> conversation_id]

\* an error result that still carries the SQL received before the failure
AskQuestionErrorKeepingSql(answer, conversation_id) ==
    AskQuestionResult(answer, None, None, current_sql_query_from_data_message,
                      conversation_id)

\* lines 427-435 and 490-504: what ask_question returns when it fails
AskQuestionError(answer, conversation_id) ==
    AskQuestionResult(answer, None, None, None, conversation_id)

\* a placeholder choice that looks at the dataframe before the chart
FinalTextReplyDataFirst(parts, chart_spec, dataframe, sql) ==
    LET final_text_reply == Strip(Flatten(parts))
    IN  IF final_text_reply # <<>>
        THEN Join(final_text_reply)
        ELSE IF dataframe # None
        THEN "[DataQnA provided tabular data. No additional text summary.]"
        ELSE IF chart_spec # None
        THEN "[DataQnA provided a chart. No additional text summary.]"
        ELSE IF sql # None
        THEN "[DataQnA generated SQL. No specific text summary.]"
        ELSE "[DataQnA provided no specific text, data, or chart output.]"

\* lines 517-526: the text of the answer, or the placeholder that stands for it
FinalTextReply(parts, chart_spec, dataframe, sql) ==
    LET final_text_reply == Strip(Flatten(parts))
    IN  IF final_text_reply # <<>>
        THEN Join(final_text_reply)
        ELSE IF chart_spec # None
        THEN "[DataQnA provided a chart. No additional text summary.]"
        ELSE IF dataframe # None
        THEN "[DataQnA provided tabular data. No additional text summary.]"
        ELSE IF sql # None
        THEN "[DataQnA generated SQL. No specific text summary.]"
        ELSE "[DataQnA provided no specific text, data, or chart output.]"

\* lines 517-544: what ask_question returns after a stream without an error
AskQuestionSuccess(parts, chart_spec, dataframe, sql, conversation_id) ==
    AskQuestionResult(FinalTextReply(parts, chart_spec, dataframe, sql),
        IF dataframe # None
        THEN Some([data |-> Val(dataframe).data, columns |-> Val(dataframe).columns])
        ELSE None,
        chart_spec, sql, conversation_id)

\* reason_on_dataqna_output_with_gemini (lines 552-660).  outcome is what the
\* model service does: [step |-> "init_error", msg], [step |-> "raise", exc]
\* or [step |-> "reply", text]
reason_on_dataqna_output_with_gemini(vertex_ok, dataqna_initial_answer, outcome) ==
    IF ~vertex_ok
    THEN "DataQnA initial answer: '" \o dataqna_initial_answer
            \o "'. Could not perform secondary reasoning: Vertex AI unavailable."
    ELSE IF outcome.step = "init_error"
    THEN "DataQnA initial answer: '" \o dataqna_initial_answer
            \o "'. Error initializing secondary reasoning model: " \o outcome.msg
    ELSE IF outcome.step = "raise"
    THEN "DataQnA Initial: '" \o dataqna_initial_answer
            \o "'. An error occurred during secondary reasoning: " \o outcome.exc.msg
    ELSE LET summary_text == Strip(outcome.text)
         IN  IF summary_text # <<>>
             THEN Join(summary_text)
             ELSE "DataQnA Initial: '" \o dataqna_initial_answer
                     \o "'. Secondary reasoning could not generate a specific summary."

\* lines 578-597: the reasoner serialises rows (json.dumps, outside its try
\* blocks) only when the table it is given has rows
HasRows(dataframe_content) ==
    dataframe_content # None /\ Val(dataframe_content).data # <<>>

\* no note for a skipped reasoning step
SkippedNoteMissing == ""

\* line 1152: the note appended when the reasoner is not available
SkippedNote ==
    " (Note: Secondary reasoning step with " \o REASONING_MODEL_NAME
        \o " skipped as its service is unavailable.)"

\* AnswerResponse(...) returned with HTTP 200 (lines 1188-1196)
AnswerResponse(query, answer, sql_query, vega_lite_spec, dataframe_content, conversation_id) ==
    [status |-> 200, query |-> query, answer |-> answer, sql_query |-> sql_query,
     vega_lite_spec |-> vega_lite_spec, dataframe_content |-> dataframe_content,
     conversation_id |-> conversation_id]

\* lines 1120-1123: the availability guard; the transport error raised, if any
InstanceGuard(instance, conv_id) ==
    IF instance = None
    THEN Some(TransportError(503,
            [message |-> "Core data querying service (DataQnA) is unavailable.",
             conversation_id |-> conv_id]))
    ELSE None

\* lines 1217-1222: what the handler raises for an error it did not expect
UnhandledError(err, conv_id) ==
    TransportError(500, [message |-> "An unexpected error occurred: " \o err,
                         conversation_id |-> conv_id])

\* startup_event (lines 1054-1104): each of the two clients initialises or fails to
MainStartup ==
    /\ service = "main"
    /\ pc = "boot"
    /\ \E dataqna_ok \in BOOLEAN, vertex_ok \in BOOLEAN :
        /\ data_qna_instance' = IF dataqna_ok THEN Some("DataQnA") ELSE None
        /\ vertex_ai_initialized' = vertex_ok
    /\ pc' = "idle"
    /\ UNCHANGED <<service, piagent_locals, verdict, response, trace,
                   conversation_histories, dataqna_fields, request_payload,
                   current_conv_id, ask_question_locals, data_qna_result,
                   requests_received, messages_received, uuids_generated>>
    /\ UNCHANGED health_response

\* lines 1107-1123: a request arrives; its conversation id; the availability guard
DataAgentReceive ==
    /\ service = "main"
    /\ pc \in {"idle", "done"}
    /\ requests_received < MaxRequests
    /\ requests_received' = requests_received + 1
    /\ \E payload \in QuestionRequests :
        LET generated == payload.conversation_id = None
            conv_id == IF generated THEN Uuid4(uuids_generated + 1)
                       ELSE Val(payload.conversation_id)
        IN  /\ request_payload' = Some(payload)
            /\ current_conv_id' = conv_id
            /\ uuids_generated' = IF generated THEN uuids_generated + 1 ELSE uuids_generated
            /\ response' = InstanceGuard(data_qna_instance, conv_id)
    /\ IF data_qna_instance = None
       THEN /\ pc' = "done"
            /\ trace' = <<"receive", "respond">>
       ELSE /\ pc' = "q_reset"
            /\ trace' = <<"receive">>
    /\ current_history' = <<>>
    /\ replies_for_history' = <<>>
    /\ accumulated_final_text_parts' = <<>>
    /\ data_qna_result' = None
    /\ UNCHANGED <<globals, piagent_locals, verdict, data_qna_instance,
                   conversation_histories, dataqna_fields, messages_received>>
    /\ health_response' = None

\* lines 1125-1134: the reset the request asks for
DataAgentReset ==
    /\ pc = "q_reset"
    /\ IF Val(request_payload).reset_conversation
            /\ Val(request_payload).conversation_id # None
       THEN /\ conversation_histories' =
                    reset_conversation(conversation_histories, current_conv_id)
            /\ trace' = trace \o <<"reset">>
                    \o (IF current_conv_id \in DOMAIN conversation_histories
                        THEN <<"history:cleared">> ELSE <<>>)
       ELSE UNCHANGED <<conversation_histories, trace>>
    /\ pc' = "q_ask"
    /\ UNCHANGED <<globals, piagent_locals, verdict, response, data_qna_instance,
                   dataqna_fields, request_payload, current_conv_id,
                   ask_question_locals, data_qna_result, requests_received, messages_received,
                   uuids_generated>>
    /\ UNCHANGED health_response

\* a field of the DataQnA object that keeps what the last call stored in it
KeepField(old) == old

\* lines 407-409: a per-request field of the DataQnA object at the start of a call
ResetField(old) == None

\* ask_question, lines 398-446: the fields are reset, the history is read, the
\* request is built and the call is made; with lines 1217-1222 when building
\* the request raises what ask_question does not catch
AskQuestionBegin ==
    /\ pc = "q_ask"
    /\ last_processed_dataframe' = ResetField(last_processed_dataframe)
    /\ last_processed_chart_spec' = ResetField(last_processed_chart_spec)
    /\ current_sql_query_from_data_message' =
            ResetField(current_sql_query_from_data_message)
    /\ current_history' = Get(conversation_histories, current_conv_id, <<>>)
    /\ \E outcome \in RequestOutcomes :
        CASE outcome.step = "ok" ->
                /\ pc' = "q_stream"
                /\ trace' = trace \o <<"ask_question", "call:dataqna">>
                /\ UNCHANGED <<data_qna_result, response>>
          [] outcome.step = "ValueError" ->
                /\ data_qna_result' = Some(AskQuestionError(
                        "Internal error: DataQnA request construction failed ("
                            \o outcome.msg \o ").", current_conv_id))
                /\ pc' = "q_answer"
                /\ trace' = trace \o <<"ask_question", "request:error">>
                /\ UNCHANGED response
          [] outcome.step = "raise" ->
                /\ response' = Some(UnhandledError(outcome.msg, current_conv_id))
                /\ pc' = "done"
                /\ trace' = trace \o <<"ask_question", "request:escaped", "respond">>
                /\ UNCHANGED data_qna_result
    /\ UNCHANGED <<globals, piagent_locals, verdict, data_qna_instance,
                   conversation_histories, request_payload, current_conv_id,
                   replies_for_history, accumulated_final_text_parts,
                   requests_received, messages_received, uuids_generated>>
    /\ UNCHANGED health_response

\* ask_question, lines 448-481: one message of the stream
AskQuestionStream ==
    /\ pc = "q_stream"
    /\ messages_received < MaxMessages
    /\ messages_received' = messages_received + 1
    /\ \E msg_container \in StreamMessages :
        LET handled == IF DataOf(msg_container) # None
                       THEN handle_data_response_for_df(Val(DataOf(msg_container)),
                                current_sql_query_from_data_message,
                                last_processed_dataframe)
                       ELSE [sql |-> current_sql_query_from_data_message,
                             dataframe |-> last_processed_dataframe]
        IN  /\ replies_for_history' = Append(replies_for_history, msg_container)
            /\ current_sql_query_from_data_message' = handled.sql
            /\ last_processed_dataframe' = handled.dataframe
            /\ last_processed_chart_spec' =
                    IF ChartOf(msg_container) # None
                    THEN ChartOf(msg_container)
                    ELSE last_processed_chart_spec
            /\ accumulated_final_text_parts' =
                    accumulated_final_text_parts \o TextPartsOf(msg_container)
    /\ trace' = Append(trace, "dataqna:message")
    /\ UNCHANGED <<globals, piagent_locals, verdict, pc, response, data_qna_instance,
                   conversation_histories, request_payload, current_conv_id,
                   current_history, data_qna_result, requests_received,
                   uuids_generated>>
    /\ UNCHANGED health_response

\* ask_question, lines 490-504: the call or the stream raises
AskQuestionStreamError ==
    /\ pc = "q_stream"
    /\ \E e \in StreamExceptions :
        data_qna_result' = Some(AskQuestionError(
            "Sorry, an error occurred while processing your request via DataQnA: " \o e,
            current_conv_id))
    /\ pc' = "q_answer"
    /\ trace' = Append(trace, "dataqna:error")
    /\ UNCHANGED <<globals, piagent_locals, verdict, response, data_qna_instance,
                   conversation_histories, dataqna_fields, request_payload,
                   current_conv_id, ask_question_locals, requests_received, messages_received,
                   uuids_generated>>
    /\ UNCHANGED health_response

\* ask_question, lines 483-485 and 517-544: the stream ends, the history is
\* stored and the result is built
AskQuestionFinish ==
    /\ pc = "q_stream"
    /\ conversation_histories' =
            StoreHistory(conversation_histories, current_conv_id, current_history,
                         UserMessage(Val(request_payload).question), replies_for_history)
    /\ data_qna_result' = Some(AskQuestionSuccess(accumulated_final_text_parts,
            last_processed_chart_spec, last_processed_dataframe,
            current_sql_query_from_data_message, current_conv_id))
    /\ pc' = "q_answer"
    /\ trace' = Append(trace, "dataqna:end")
    /\ UNCHANGED <<globals, piagent_locals, verdict, response, data_qna_instance,
                   dataqna_fields, request_payload, current_conv_id,
                   ask_question_locals, requests_received, messages_received, uuids_generated>>
    /\ UNCHANGED health_response

\* the external calls reason_on_dataqna_output_with_gemini makes for an outcome
ReasoningModelCalls(outcome) ==
    CASE outcome.step = "init_error" -> <<"reasoning_model:init_error">>
      [] outcome.step = "raise" -> <<"call:reasoning_model", "reasoning_model:error">>
      [] outcome.step = "reply" -> <<"call:reasoning_model">>

\* lines 1173-1186: the table of the response, DataTableContent(**raw_df_content)
ResponseDataframe(result) == result.dataframe_content

\* lines 1143-1204: the final answer is chosen and the response is returned;
\* with lines 1217-1222 when an error escapes the reasoner
DataAgentAnswer ==
    /\ pc = "q_answer"
    /\ LET payload == Val(request_payload)
           result == Val(data_qna_result)
           Respond(final_answer) ==
                Some(AnswerResponse(payload.question, final_answer, result.sql_query,
                        result.vega_lite_spec, ResponseDataframe(result),
                        result.conversation_id))
       IN  IF ~payload.enable_secondary_reasoning
           THEN /\ response' = Respond(result.answer)
                /\ trace' = Append(trace, "respond")
           ELSE IF ~vertex_ai_initialized
           THEN /\ response' = Respond(result.answer \o SkippedNote)
                /\ trace' = trace \o <<"reason:skipped", "respond">>
           ELSE \/ \E outcome \in GenerationOutcomes(ReasoningReplies) :
                    /\ response' = Respond(reason_on_dataqna_output_with_gemini(
                            vertex_ai_initialized, result.answer, outcome))
                    /\ trace' = trace \o <<"reason">> \o ReasoningModelCalls(outcome)
                            \o <<"respond">>
                \/ \E err \in ReasoningAssemblyErrors :
                    /\ HasRows(result.dataframe_content)
                    /\ response' = Some(UnhandledError(err, current_conv_id))
                    /\ trace' = trace \o <<"reason", "reason:escaped", "respond">>
    /\ pc' = "done"
    /\ UNCHANGED <<globals, piagent_locals, verdict, data_qna_instance,
                   conversation_histories, dataqna_fields, request_payload,
                   current_conv_id, ask_question_locals, data_qna_result,
                   requests_received, messages_received, uuids_generated>>
    /\ UNCHANGED health_response

\* lines 1225-1232: GET /health of main.py
main_health_check(instance, vertex_ok) ==
    [status_code |-> 200,
     status |-> IF instance # None /\ vertex_ok THEN "ok" ELSE "error",
     services |->
        [data_query_service_status |-> IF instance # None THEN "ok" ELSE "unavailable",
         secondary_reasoning_service_status |->
            IF vertex_ok THEN "ok"
            ELSE "unavailable (model: " \o REASONING_MODEL_NAME \o ")"]]

MainHealthCheck ==
    /\ service = "main"
    /\ pc \in {"idle", "done"}
    /\ health_response' = Some(main_health_check(data_qna_instance, vertex_ai_initialized))
    /\ UNCHANGED <<service, pc, vertex_ai_initialized, piagent_locals, response, trace,
                   main_state>>

MainNext ==
    \/ MainHealthCheck
    \/ MainStartup
    \/ DataAgentReceive
    \/ DataAgentReset
    \/ AskQuestionBegin
    \/ AskQuestionStream
    \/ AskQuestionStreamError
    \/ AskQuestionFinish
    \/ DataAgentAnswer

Next == PiagentNext \/ MainNext

Spec == Init /\ [][Next]_vars

\* piagent.py alone
InitPiagent == Init /\ service = "piagent"
SpecPiagent == InitPiagent /\ [][PiagentNext]_vars

\* main.py alone
InitMain == Init /\ service = "main"
SpecMain == InitMain /\ [][MainNext]_vars

-----------------------------------------------------------------------------
(* The validation block on its own: the generator is replaced by one that  *)
(* returns any text (or None), as a test with a mocked generator does.     *)

\* pieces of text the strings handed to the validator are made of
SqlFragments ==
    { <<" ">>, <<";">>, <<"x">>,
      SELECTKW, WITHKW, DROPKW,
      <<"s","e","l","e","c","t">>, <<"W","i","t","h">>, <<"d","r","o","p">>, <<"u","p","d","a","t","e","d","_","a","t">>,
      KeywordChars("INSERT"), KeywordChars("UPDATE"), KeywordChars("DELETE"),
      KeywordChars("CREATE"), KeywordChars("ALTER"), KeywordChars("TRUNCATE"),
      KeywordChars("GRANT"), KeywordChars("REVOKE"), KeywordChars("MERGE") }

\* the strings the specification of the validator gives as examples
ExampleDropAfterSelect ==
    <<"S","E","L","E","C","T"," ","*"," ","F","R","O","M"," ","t",";"," ","D","R","O","P"," ","T","A","B","L","E"," ","t">>
ExampleCte ==
    <<"W","I","T","H"," ","x"," ","A","S"," ","(","S","E","L","E","C","T"," ","1",")"," ","S","E","L","E","C","T"," ","*"," ","F","R","O","M"," ","x">>
ExampleCteOnly ==
    <<"W","I","T","H"," ","x"," ","A","S"," ","(","S","E","L","E","C","T"," ","1",")">>
ExampleDropTable ==
    <<"D","R","O","P"," ","T","A","B","L","E"," ","t">>
\* SELECT 1; DROP TABLE t; INSERT INTO t
ExampleDropThenInsert ==
    SELECTKW \o <<" ","1",";"," ">> \o DROPKW \o <<" ","T","A","B","L","E"," ","t",";"," ">>
        \o KeywordChars("INSERT") \o <<" ","I","N","T","O"," ","t">>
\* a SELECT followed by two different forbidden keywords, in either order
TwoKeywordStrings ==
    UNION { { SELECTKW \o <<" ">> \o KeywordChars(forbidden_keywords[a]) \o <<" ">>
                \o KeywordChars(forbidden_keywords[b]) :
                b \in (1..Len(forbidden_keywords)) \ {a} } :
            a \in 1..Len(forbidden_keywords) }
ExampleStrings ==
    {ExampleDropAfterSelect, ExampleCte, ExampleCteOnly, ExampleDropTable,
     ExampleDropThenInsert} \cup TwoKeywordStrings

SqlStrings ==
    {Flatten(ss) : ss \in BoundedSeq(SqlFragments, MaxSqlLen)} \cup ExampleStrings

InitValidator ==
    /\ service = "piagent"
    /\ pc = "v_empty"
    /\ vertex_ai_initialized = TRUE
    /\ bq_client = Some("bigquery.Client")
    /\ nlp_question \in Questions
    /\ sql_model_reply = None
    /\ summary_prompt = None
    /\ job_results = None
    /\ executed_sql_query = None
    /\ summary_response_text = None
    /\ generated_sql \in {None} \cup {Some(s) : s \in SqlStrings}
    /\ query_results = None
    /\ df_content_for_response = None
    /\ is_valid_query_structure = FALSE
    /\ is_safe_for_readonly = TRUE
    /\ validation_error_message = ""
    /\ response = None
    /\ health_response = None
    /\ trace = <<"receive", "schema", "generate">>
    /\ InitMainState

NextValidator ==
    \/ AskCheckEmpty
    \/ AskCheckStructure
    \/ AskScanKeywords
    \/ AskDecide

SpecValidator == InitValidator /\ [][NextValidator]_vars

-----------------------------------------------------------------------------
(* Vocabulary of the properties, stated without the operators of the model *)
(* of the validator.                                                       *)

InTrace(e) == \E i \in 1..Len(trace) : trace[i] = e
Precedes(a, b) ==
    \A i, j \in 1..Len(trace) : (trace[i] = a /\ trace[j] = b) => i < j
Decided == InTrace("validate:accept") \/ InTrace("validate:reject")

UpperSeq(s) == [i \in 1..Len(s) |-> Upper(s[i])]
AllSpace(s) == \A i \in 1..Len(s) : IsSpaceChar(s[i])

\* w (upper case) occurs in s in any letter case with no word character next to it
OccursAsWord(s, w) ==
    \E i \in 1..(Len(s) - Len(w) + 1) :
        /\ UpperSeq(SubSeq(s, i, i + Len(w) - 1)) = w
        /\ (i = 1 \/ ~IsWordChar(s[i - 1]))
        /\ (i + Len(w) - 1 = Len(s) \/ ~IsWordChar(s[i + Len(w)]))

\* after its leading whitespace s begins with the letters of w, in any case
BeginsWithLetters(s, w) ==
    LET t == LStrip(s)
    IN  Len(t) >= Len(w) /\ UpperSeq(SubSeq(t, 1, Len(w))) = w

\* ... and the letters are a whole word
BeginsWithWord(s, w) ==
    LET t == LStrip(s)
    IN  BeginsWithLetters(s, w) /\ (Len(t) = Len(w) \/ ~IsWordChar(t[Len(w) + 1]))

\* s passes the structure check as the specification words it
Structured(s) ==
    /\ ~AllSpace(s)
    /\ \/ BeginsWithWord(s, SELECTKW)
       \/ BeginsWithWord(s, WITHKW) /\ OccursAsWord(s, SELECTKW)

\* the forbidden keywords that occur in s as whole words, by index
ForbiddenIn(s) ==
    {i \in 1..Len(forbidden_keywords) : OccursAsWord(s, KeywordChars(forbidden_keywords[i]))}

\* the generated SQL as text ("" for None)
SqlText == IF generated_sql = None THEN <<>> ELSE Val(generated_sql)

RejectedWith(message) ==
    /\ InTrace("validate:reject")
    /\ validation_error_message = message
    /\ response # None
    /\ Val(response).status = 200
    /\ Val(response).answer = message

-----------------------------------------------------------------------------
(* C1.  The validator applies the empty check, then the structure check,   *)
(* then the keyword scan, and the first failure decides the message: a     *)
(* string that fails the structure check is rejected with a structure      *)
(* message even if it holds a forbidden keyword ("DROP TABLE t"), and the  *)
(* keyword scan runs only on structurally valid strings.                   *)
C1_RejectionPrecedence ==
    Decided =>
        /\ InTrace("validate:empty")
        /\ Precedes("validate:empty", "validate:structure")
        /\ Precedes("validate:structure", "validate:keywords")
        /\ (generated_sql = None \/ AllSpace(SqlText)) => RejectedWith(MsgEmpty)
        /\ (generated_sql # None /\ ~AllSpace(SqlText) /\ ~Structured(SqlText)) =>
                /\ RejectedWith(MsgMustStart) \/ RejectedWith(MsgWithNoSelect)
                /\ InTrace("validate:structure")
        /\ InTrace("validate:keywords") <=> (generated_sql # None /\ Structured(SqlText))
        /\ generated_sql = Some(ExampleDropTable) => RejectedWith(MsgMustStart)

C1_Witness ==
    /\ Decided
    /\ generated_sql # None
    /\ ~Structured(SqlText)
    /\ ForbiddenIn(SqlText) # {}
    /\ RejectedWith(MsgMustStart)

(* C2.  A structurally valid string is rejected by the keyword scan exactly *)
(* when a forbidden keyword occurs in it as a whole word in any letter case;*)
(* the message names a keyword that occurs; "SELECT * FROM t; DROP TABLE t" *)
(* is rejected citing DROP; a keyword inside a longer identifier            *)
(* (updated_at) does not cause rejection.                                   *)
C2_KeywordScanVerdict ==
    (Decided /\ generated_sql # None /\ Structured(SqlText)) =>
        /\ is_safe_for_readonly <=> (ForbiddenIn(SqlText) = {})
        /\ ForbiddenIn(SqlText) = {} => InTrace("validate:accept") /\ response = None
        /\ ForbiddenIn(SqlText) # {} =>
                \E i \in ForbiddenIn(SqlText) :
                    RejectedWith("Generated SQL contains a disallowed keyword: "
                        \o forbidden_keywords[i] \o ". Only SELECT queries are permitted.")
        /\ SqlText = ExampleDropAfterSelect =>
                RejectedWith("Generated SQL contains a disallowed keyword: DROP. Only SELECT queries are permitted.")
        /\ SqlText = SELECTKW \o <<" ">> \o <<"u","p","d","a","t","e","d","_","a","t">> => InTrace("validate:accept")

C2_Witness ==
    /\ Decided
    /\ SqlText = ExampleDropAfterSelect
    /\ ~is_safe_for_readonly
    /\ RejectedWith(MsgKeyword("DROP"))

(* C3 as amended.  Every string that is not empty or whitespace-only and    *)
(* does not begin, after leading whitespace, with the word SELECT or WITH   *)
(* in any letter case is rejected with "Generated SQL must start with       *)
(* SELECT or WITH."                                                         *)
C3_NonSelectRejected ==
    (Decided /\ generated_sql # None /\ ~AllSpace(SqlText)
        /\ ~BeginsWithWord(SqlText, SELECTKW) /\ ~BeginsWithWord(SqlText, WITHKW)) =>
            RejectedWith("Generated SQL must start with SELECT or WITH.")

C3_Witness ==
    /\ Decided
    /\ generated_sql # None
    /\ ~AllSpace(SqlText)
    /\ BeginsWithLetters(SqlText, SELECTKW)
    /\ ~BeginsWithWord(SqlText, SELECTKW)
    /\ RejectedWith(MsgMustStart)

(* C3 as claimed: every string that does not start with SELECT or WITH is  *)
(* rejected with the must-start message (the empty string is such a string).*)
C3_Original ==
    (Decided /\ generated_sql # None
        /\ ~BeginsWithLetters(SqlText, SELECTKW) /\ ~BeginsWithLetters(SqlText, WITHKW)) =>
            RejectedWith("Generated SQL must start with SELECT or WITH.")

(* C4 as amended.  For a string that begins with WITH the validator        *)
(* requires the word SELECT to occur somewhere in the string, not after    *)
(* the WITH clause: "WITH x AS (SELECT 1) SELECT * FROM x" is accepted,    *)
(* "WITH x AS (SELECT 1)" is accepted as well (its inner SELECT counts),    *)
(* and a WITH string holding no SELECT at all is rejected with "SQL starts *)
(* with WITH but does not contain a SELECT statement."                     *)
C4_WithNeedsSelectSomewhere ==
    (Decided /\ generated_sql # None /\ BeginsWithWord(SqlText, WITHKW)) =>
        /\ is_valid_query_structure <=> OccursAsWord(SqlText, SELECTKW)
        /\ ~OccursAsWord(SqlText, SELECTKW) =>
                RejectedWith("SQL starts with WITH but does not contain a SELECT statement.")
        /\ SqlText = ExampleCte => InTrace("validate:accept")
        /\ SqlText = ExampleCteOnly => InTrace("validate:accept")

C4_Witness ==
    /\ Decided
    /\ SqlText = ExampleCteOnly
    /\ is_valid_query_structure
    /\ InTrace("validate:accept")

(* C4 as claimed: "WITH x AS (SELECT 1)" is rejected with the WITH message. *)
C4_Original ==
    (Decided /\ SqlText = ExampleCteOnly) => RejectedWith(MsgWithNoSelect)

(* C5.  The empty string, every whitespace-only string and a null SQL are   *)
(* rejected with exactly "LLM returned an empty SQL query.", and neither    *)
(* the structure check nor the keyword scan is evaluated.                   *)
C5_EmptyRejected ==
    (InTrace("validate:empty") /\ pc # "v_structure"
        /\ (generated_sql = None \/ AllSpace(SqlText))) =>
            /\ validation_error_message = "LLM returned an empty SQL query."
            /\ ~InTrace("validate:structure")
            /\ ~InTrace("validate:keywords")
            /\ ~is_valid_query_structure
            /\ pc \in {"v_decide", "done"}
            /\ pc = "done" => RejectedWith("LLM returned an empty SQL query.")

C5_Witness ==
    /\ generated_sql # None
    /\ Len(SqlText) >= 2
    /\ AllSpace(SqlText)
    /\ RejectedWith(MsgEmpty)

(* C6.  The query executor is never invoked for a request whose SQL the  *)
(* validator rejected: the rejection itself returns an HTTP-200 body with  *)
(* sql_query the rejected SQL, dataframe_content null and answer the        *)
(* validation message, and no summarization call is made.                   *)
C6_RejectedNeverExecuted ==
    /\ InTrace("validate:reject") =>
        /\ pc = "done"
        /\ validation_error_message # ""
        /\ response = Some([status |-> 200, query |-> nlp_question,
                            sql_query |-> generated_sql, dataframe_content |-> None,
                            answer |-> validation_error_message])
        /\ query_results = None
        /\ \A i \in 1..Len(trace) :
                trace[i] \notin {"execute", "call:bigquery", "summarize", "call:summary_model"}
        /\ trace[Len(trace)] = "respond"
        /\ trace[Len(trace) - 1] = "validate:reject"
    /\ (InTrace("execute") \/ InTrace("call:bigquery")) =>
        /\ InTrace("validate:accept")
        /\ is_valid_query_structure
        /\ is_safe_for_readonly

C6_Witness ==
    /\ service = "piagent"
    /\ InTrace("call:sql_model")
    /\ InTrace("validate:reject")
    /\ is_valid_query_structure
    /\ ~is_safe_for_readonly
    /\ response # None
    /\ Val(response).sql_query = generated_sql

\* the texts a summarizer failure puts in the answer, for n retrieved rows
SummaryFailureTexts(n) ==
    {"Retrieved " \o ToString(n) \o " records. Error initializing summary model: " \o m :
        m \in ModelInitErrors}
    \cup
    {"Successfully retrieved " \o ToString(n)
        \o " records. An error occurred while generating a business summary: "
        \o e.msg \o ExceptionExtras(e) : e \in ModelExceptions}

(* C7 as amended.  When the summary model cannot be initialised or its call *)
(* fails during a request, /ask still returns HTTP 200 with an answer that  *)
(* holds the retrieved row count and an explicit error notice, and with     *)
(* dataframe_content populated from the executed query; when Vertex AI was  *)
(* never initialised /ask does not reach the summarizer at all: it answers  *)
(* 503 before any generation, execution or summarization.                   *)
C7_SummarizerFailureDegrades ==
    /\ (service = "piagent" /\ ~vertex_ai_initialized /\ response # None) =>
        /\ Val(response).status = 503
        /\ trace = <<"receive", "respond">>
    /\ (InTrace("summary_model:init_error") \/ InTrace("summary_model:error")) =>
        /\ pc = "done"
        /\ query_results # None
        /\ response # None
        /\ Val(response).status = 200
        /\ Val(response).sql_query = generated_sql
        /\ Val(response).dataframe_content # None
        /\ Val(Val(response).dataframe_content).data = Val(query_results)
        /\ Val(response).answer \in SummaryFailureTexts(Len(Val(query_results)))

C7_Witness ==
    /\ InTrace("summary_model:error")
    /\ response # None
    /\ Val(response).status = 200
    /\ Len(Val(Val(response).dataframe_content).data) = 2
    /\ Val(response).answer \in SummaryFailureTexts(2)

(* C7 as claimed: with the summarization dependency (Vertex AI) unavailable *)
(* /ask returns HTTP 200 with the row count and an unavailability notice in *)
(* the answer and dataframe_content populated.                              *)
C7_Original ==
    (service = "piagent" /\ ~vertex_ai_initialized /\ response # None) =>
        /\ Val(response).status = 200
        /\ Val(response).dataframe_content # None
        /\ \E n \in 0..MaxRows :
            Val(response).answer = "Retrieved " \o ToString(n)
                \o " records. Summary generation failed: Vertex AI unavailable."

\* the trace events that record a failure of a stage of piagent.py
PiagentFailureEvents ==
    {"sql_model:init_error", "sql_model:error", "bigquery:error",
     "summary_model:init_error", "summary_model:error", "summary:escaped"}

\* ... a failure that ask_question of main.py catches
AskQuestionFailureEvents == {"request:error", "dataqna:error"}

\* ... and an error that no stage of main.py catches
EscapedEvents == {"request:escaped", "reason:escaped"}

FailureRecorded(events) == \E i \in 1..Len(trace) : trace[i] \in events

\* the answers ask_question gives for the failures it catches
AskQuestionFailureTexts ==
    {"Internal error: DataQnA request construction failed (" \o o.msg \o ")." :
        o \in {x \in RequestOutcomes : x.step = "ValueError"}}
    \cup
    {"Sorry, an error occurred while processing your request via DataQnA: " \o e :
        e \in StreamExceptions}

C9_UninitialisedDependencyEscalates ==
    /\ (service = "piagent" /\ InTrace("receive")
            /\ (~vertex_ai_initialized \/ bq_client = None)) =>
        /\ pc = "done"
        /\ response # None
        /\ Val(response).status = 503
        /\ DOMAIN Val(response) = {"status", "detail"}
        /\ trace = <<"receive", "respond">>
        /\ generated_sql = None
        /\ query_results = None
    /\ (service = "main" /\ InTrace("receive") /\ data_qna_instance = None) =>
        /\ pc = "done"
        /\ response # None
        /\ Val(response).status = 503
        /\ DOMAIN Val(response) = {"status", "detail"}
        /\ Val(response).detail.conversation_id = current_conv_id
        /\ trace = <<"receive", "respond">>
        /\ conversation_histories = <<>>
        /\ data_qna_result = None
        /\ dataqna_fields = <<None, None, None>>

C9_Witness ==
    /\ service = "piagent"
    /\ vertex_ai_initialized
    /\ bq_client = None
    /\ InTrace("receive")
    /\ response # None
    /\ Val(response).status = 503
    /\ Val(response).detail = "BigQuery client failed to initialize on startup."

\* the texts a failure of SQL generation puts in the answer
GenerationFailureTexts ==
    {"Could not initialize LLM model for SQL generation: " \o m : m \in ModelInitErrors}
    \cup
    {"LLM failed to generate valid SQL content: " \o e.msg :
        e \in {x \in ModelExceptions : x.kind = "ValueError"}}
    \cup
    {"Error generating SQL from LLM: " \o e.msg \o ExceptionExtras(e) :
        e \in {x \in ModelExceptions : x.kind # "ValueError"}}

(* C10.  A failure of SQL generation (model initialisation or content      *)
(* generation) is surfaced inline: /ask returns an HTTP-200 body whose      *)
(* answer is the text of the failure, with sql_query null and               *)
(* dataframe_content null, and validation, execution and summarization do   *)
(* not run.                                                                 *)
C10_GenerationFailureInline ==
    (InTrace("sql_model:init_error") \/ InTrace("sql_model:error")) =>
        /\ pc = "done"
        /\ response # None
        /\ Val(response).status = 200
        /\ Val(response).query = nlp_question
        /\ Val(response).sql_query = None
        /\ Val(response).dataframe_content = None
        /\ Val(response).answer \in GenerationFailureTexts
        /\ generated_sql = None
        /\ query_results = None
        /\ \A i \in 1..Len(trace) :
                trace[i] \in {"receive", "schema", "generate", "call:sql_model",
                              "sql_model:init_error", "sql_model:error", "respond"}
        /\ trace[Len(trace)] = "respond"

C10_Witness ==
    /\ InTrace("call:sql_model")
    /\ InTrace("sql_model:error")
    /\ response # None
    /\ Val(response).status = 200
    /\ Val(response).answer = "Error generating SQL from LLM: blocked Candidates: [c0] Parts: [p0]"

\* the answers an execution failure gives, one for each error BigQuery raises
ExecutionFailureTexts ==
    {"Error executing BigQuery query: Timeout",
     "Error executing BigQuery query: 400 Syntax error; Details: Syntax error at [1:1]",
     "Error executing BigQuery query: 500 backend; Details: Unknown BQ error",
     "Error executing BigQuery query: 403 denied"}

CountInTrace(e) == Cardinality({i \in 1..Len(trace) : trace[i] = e})

(* C11 as amended.  In piagent.py an execution failure is surfaced inline:  *)
(* /ask returns an HTTP-200 body whose answer carries the error message of  *)
(* the executor and whose sql_query is the generated SQL; dataframe_content *)
(* is null even when rows had been fetched before the failure; the          *)
(* summarizer is not called and the query is not tried again.               *)
C11_ExecutionFailureInline ==
    InTrace("bigquery:error") =>
        /\ pc = "done"
        /\ response # None
        /\ Val(response).status = 200
        /\ Val(response).query = nlp_question
        /\ Val(response).answer \in ExecutionFailureTexts
        /\ generated_sql # None
        /\ Val(response).sql_query = generated_sql
        /\ Val(response).dataframe_content = None
        /\ query_results = None
        /\ CountInTrace("call:bigquery") = 1
        /\ ~InTrace("summarize")
        /\ ~InTrace("call:summary_model")
        /\ trace[Len(trace)] = "respond"
        /\ trace[Len(trace) - 1] = "bigquery:error"

C11_Witness ==
    /\ InTrace("bigquery:error")
    /\ CountInTrace("bigquery:row") = 2
    /\ response # None
    /\ Val(response).answer =
            "Error executing BigQuery query: 400 Syntax error; Details: Syntax error at [1:1]"
    /\ Val(response).dataframe_content = None

(* C11 as claimed: when rows were fetched before the executor failed, the   *)
(* response carries them in dataframe_content.                              *)
C11_Original ==
    (InTrace("bigquery:error") /\ InTrace("bigquery:row") /\ response # None) =>
        Val(response).dataframe_content # None

\* the stage of the pipeline of piagent.py an entry of the trace belongs to
StageOf(e) ==
    CASE e = "receive" -> 0
      [] e = "schema" -> 1
      [] e \in {"generate", "call:sql_model", "sql_model:init_error", "sql_model:error"} -> 2
      [] e \in {"validate:empty", "validate:structure", "validate:keywords",
                "validate:accept", "validate:reject"} -> 3
      [] e \in {"execute", "call:bigquery", "bigquery:row", "bigquery:error"} -> 4
      [] e \in {"summarize", "call:summary_model", "summary_model:init_error",
                "summary_model:error", "summary:escaped"} -> 5
      [] e = "respond" -> 6

\* entries that occur at most once in the trace of a request: the stages,
\* the external calls and the response
OncePerRequest ==
    {"receive", "schema", "generate", "execute", "summarize", "respond",
     "call:sql_model", "call:bigquery", "call:summary_model"}

(* C12.  A request to piagent.py is a linear pipeline: its stages occur in  *)
(* the order schema lookup, generate, validate, execute, summarize,         *)
(* respond, none is entered before the one before it has been passed and    *)
(* none is entered twice; each external call is made at most once; a        *)
(* failure of a stage is followed by the response and nothing else; and     *)
(* exactly one response is produced.                                        *)
C12_LinearPipeline ==
    /\ \A i, j \in 1..Len(trace) : i < j => StageOf(trace[i]) <= StageOf(trace[j])
    /\ \A e \in OncePerRequest : CountInTrace(e) <= 1
    /\ InTrace("summarize") => InTrace("execute") /\ InTrace("call:bigquery")
    /\ InTrace("execute") => InTrace("validate:accept")
    /\ InTrace("validate:empty") => InTrace("generate") /\ InTrace("call:sql_model")
    /\ InTrace("generate") => InTrace("schema")
    /\ \A i \in 1..Len(trace) :
            trace[i] \in PiagentFailureEvents \cup {"validate:reject"}
                => (i + 1 = Len(trace) /\ trace[i + 1] = "respond")
    /\ InTrace("respond") <=> (pc = "done")
    /\ InTrace("respond") <=> (response # None)
    /\ InTrace("respond") => trace[Len(trace)] = "respond"

C12_Witness ==
    /\ pc = "done"
    /\ trace = <<"receive", "schema", "generate", "call:sql_model",
                 "validate:empty", "validate:structure", "validate:keywords",
                 "validate:accept", "execute", "call:bigquery", "bigquery:row",
                 "summarize", "call:summary_model", "respond">>

\* the request went through every stage and the summary model replied
SuccessPath ==
    /\ pc = "done"
    /\ InTrace("validate:accept")
    /\ InTrace("call:bigquery")
    /\ ~InTrace("bigquery:error")
    /\ Len(trace) >= 2
    /\ trace[Len(trace) - 1] = "call:summary_model"

\* the answers of the success path: the reply of the summary model without
\* its surrounding whitespace or, for a blank reply, the placeholder
SuccessAnswers(n) ==
    {"Sales up.",
     "Retrieved " \o ToString(n) \o " records, but could not generate a specific summary."}

(* C13.  On the success path of piagent.py (the validator accepts the       *)
(* generated SQL, the executor returns rows R, the summarizer returns text  *)
(* S) the response is HTTP 200 with answer S, dataframe_content.data equal  *)
(* to R in order, one entry for each row fetched, sql_query the generated   *)
(* SQL and query the question.                                              *)
C13_SuccessPathResponse ==
    SuccessPath =>
        /\ response # None
        /\ Val(response).status = 200
        /\ Val(response).query = nlp_question
        /\ generated_sql # None
        /\ Val(response).sql_query = generated_sql
        /\ query_results # None
        /\ Val(response).dataframe_content # None
        /\ Val(Val(response).dataframe_content).data = Val(query_results)
        /\ Len(Val(Val(response).dataframe_content).data) = CountInTrace("bigquery:row")
        /\ Val(response).answer \in SuccessAnswers(Len(Val(query_results)))

\* the example of the specification: one row {total: 1000.0}
C13_Witness ==
    /\ SuccessPath
    /\ nlp_question = "total sales last week"
    /\ Val(response).answer = "Sales up."
    /\ Val(Val(response).dataframe_content).data
            = << <<[key |-> "total", value |-> [py |-> "float", unscaled |-> 1000, scale |-> 0]]>> >>
    /\ Val(Val(response).dataframe_content).columns = <<"total">>

\* s without the whitespace around it
TrimOf(s) ==
    IF AllSpace(s) THEN <<>>
    ELSE LET inked == {i \in 1..Len(s) : ~IsSpaceChar(s[i])}
             first == CHOOSE i \in inked : \A j \in inked : i <= j
             last == CHOOSE i \in inked : \A j \in inked : j <= i
         IN  SubSeq(s, first, last)

HasPrefix(s, p) == Len(s) >= Len(p) /\ SubSeq(s, 1, Len(p)) = p
HasSuffix(s, p) == Len(s) >= Len(p) /\ SubSeq(s, Len(s) - Len(p) + 1, Len(s)) = p

\* the trimmed reply t without one leading fence (with or without the sql
\* tag) and without one trailing fence, trimmed
Unfenced(t) ==
    LET s == TrimOf(t)
        lead == IF HasPrefix(s, Fence \o <<"s", "q", "l">>) THEN 6
                ELSE IF HasPrefix(s, Fence) THEN 3
                ELSE 0
        rest == SubSeq(s, lead + 1, Len(s))
        trail == IF HasSuffix(rest, Fence) THEN 3 ELSE 0
    IN  TrimOf(SubSeq(rest, 1, Len(rest) - trail))

(* C14.  The post-processing of the SQL generator trims the reply of the    *)
(* model, removes one leading markdown fence (with or without the sql tag)  *)
(* and one trailing fence, and trims again: the generated SQL has no        *)
(* whitespace around it, and the reply that holds SELECT 1 on a line of     *)
(* its own inside a fence yields exactly SELECT 1.                          *)
C14_FenceStripping ==
    (sql_model_reply # None /\ generated_sql # None) =>
        /\ Val(generated_sql) = Unfenced(Val(sql_model_reply))
        /\ Val(generated_sql) = TrimOf(Val(generated_sql))
        /\ Val(sql_model_reply) = ExampleFencedReply =>
                Val(generated_sql) = <<"S", "E", "L", "E", "C", "T", " ", "1">>

C14_Witness ==
    /\ sql_model_reply = Some(Fence \o <<"s", "q", "l", "\n">> \o SELECTKW \o <<" ", "1", "\n">> \o Fence)
    /\ generated_sql = Some(<<"S", "E", "L", "E", "C", "T", " ", "1">>)
    /\ InTrace("validate:accept")

\* state that every request of a process shares: the module globals
SharedGlobals == <<service, vertex_ai_initialized, bq_client, data_qna_instance>>

\* the data payloads and the charts among the messages streamed to this request
DataStreamed ==
    {Val(Val(replies_for_history[i].system_message).data) :
        i \in {k \in 1..Len(replies_for_history) :
                Val(replies_for_history[k].system_message).data # None}}
ChartsStreamed ==
    {Val(Val(replies_for_history[i].system_message).chart) :
        i \in {k \in 1..Len(replies_for_history) :
                Val(replies_for_history[k].system_message).chart # None}}

\* the three per-request fields of the DataQnA object hold nothing
FieldsClear == dataqna_fields = <<None, None, None>>

C15_Step ==
    /\ pc # "boot" => UNCHANGED SharedGlobals
    /\ service = "piagent" => UNCHANGED <<conversation_histories, dataqna_fields>>
    /\ pc = "q_ask" => FieldsClear'
    /\ (pc = "q_answer" /\ pc' = "done" /\ Val(response').status = 200) =>
        /\ Val(response').sql_query # None =>
                \E d \in DataStreamed : d.generated_sql = Val(Val(response').sql_query)
        /\ Val(response').dataframe_content # None => DataStreamed # {}
        /\ Val(response').vega_lite_spec # None =>
                Val(response').vega_lite_spec \in ChartsStreamed

(* C15 as amended.  No /ask request changes a module global of either      *)
(* service, and piagent.py has no other shared state.  In main.py a request *)
(* writes, besides the conversation-history map, the three result fields    *)
(* of the shared DataQnA object; what it wrote stays there after the        *)
(* request has ended, until the next call of ask_question clears the fields *)
(* before it reads them, so with requests handled one after the other a     *)
(* response holds only what was streamed to its own request.                *)
C15_SharedStateWrites == [][C15_Step]_vars

\* a second request has arrived while the fields still hold the first one's data
C15_Witness ==
    /\ service = "main"
    /\ requests_received = 2
    /\ pc = "q_ask"
    /\ last_processed_dataframe # None
    /\ current_sql_query_from_data_message # None
    /\ replies_for_history = <<>>

(* C15 as claimed: apart from the conversation-history map, nothing a       *)
(* request writes persists after it.                                        *)
C15_Original ==
    (service = "main" /\ pc = "done") => FieldsClear

\* the history stored for a conversation id, empty when there is none
HistoryOf(histories, c) == IF c \in DOMAIN histories THEN histories[c] ELSE <<>>

IsPrefixOf(a, b) == Len(a) <= Len(b) /\ SubSeq(b, 1, Len(a)) = a

\* the questions asked in a history
UserMessagesIn(h) == {i \in 1..Len(h) : h[i].user_message # None}

C16_Step ==
    /\ requests_received' # requests_received => pc \in {"idle", "done"}
    /\ pc \in {"q_stream", "q_answer"} =>
            UNCHANGED <<current_conv_id, current_history, request_payload>>
    /\ pc = "q_stream" =>
            current_history = HistoryOf(conversation_histories, current_conv_id)
    /\ conversation_histories' # conversation_histories =>
        \/ pc = "q_reset"
        \/ /\ pc = "q_stream"
           /\ current_conv_id \in DOMAIN conversation_histories'
           /\ IsPrefixOf(HistoryOf(conversation_histories, current_conv_id),
                         conversation_histories'[current_conv_id])
           /\ Len(conversation_histories'[current_conv_id]) =
                Len(HistoryOf(conversation_histories, current_conv_id))
                    + 1 + Len(replies_for_history)
    /\ \A c \in DOMAIN conversation_histories :
            c # current_conv_id =>
                /\ c \in DOMAIN conversation_histories'
                /\ conversation_histories'[c] = conversation_histories[c]

C17_Step ==
    /\ \A c \in DOMAIN conversation_histories :
        (c \notin DOMAIN conversation_histories'
            \/ ~IsPrefixOf(conversation_histories[c], HistoryOf(conversation_histories', c)))
        => /\ pc = "q_reset"
           /\ Val(request_payload).reset_conversation
           /\ Val(request_payload).conversation_id = Some(c)
    /\ (pc = "q_reset" /\ Val(request_payload).reset_conversation
            /\ Val(request_payload).conversation_id # None)
        => Val(Val(request_payload).conversation_id) \notin DOMAIN conversation_histories'
    /\ (pc = "q_stream" /\ conversation_histories' # conversation_histories
            /\ Val(request_payload).reset_conversation
            /\ Val(request_payload).conversation_id # None)
        => conversation_histories'[current_conv_id] =
                <<[user_message |-> Some(Val(request_payload).question),
                   system_message |-> None]>> \o replies_for_history

(* C17.  In main.py the history of a conversation stays for the life of    *)
(* the process: no step removes or shortens an entry except the reset of a  *)
(* request that carries reset_conversation = true together with that        *)
(* conversation id; that request clears the history before it asks, and     *)
(* after it succeeds the stored history holds its own exchange only.        *)
C17_HistoryPersistsUntilReset == [][C17_Step]_vars

\* a request with reset_conversation cleared a stored history and succeeded
C17_Witness ==
    /\ service = "main"
    /\ pc = "done"
    /\ InTrace("history:cleared")
    /\ InTrace("dataqna:end")
    /\ Val(request_payload).reset_conversation
    /\ current_conv_id = "c1"
    /\ Cardinality(UserMessagesIn(conversation_histories["c1"])) = 1
    /\ Len(conversation_histories["c1"]) = 2

-----------------------------------------------------------------------------
(* The sample of rows in the summarizer's prompt.                          *)

\* the lines of a prompt context of the given kind, in order
LinesOf(ctx, kind) ==
    LET RECURSIVE Pick(_)
        Pick(i) == IF i > Len(ctx) THEN <<>>
                   ELSE (IF ctx[i].line = kind THEN <<ctx[i]>> ELSE <<>>) \o Pick(i + 1)
    IN  Pick(1)

\* C18: whenever the summarizer has built a prompt for a result of n rows, the
\* prompt holds at most 10 sample rows, which are exactly the first min(n, 10)
\* rows of the result in order, and the total row count n; it holds a
\* "... and n-10 more rows" line exactly when n > 10; for n = 0 it states that
\* the query returned no data.
C18_SummarySampleCapped ==
    (service = "piagent" /\ summary_prompt # None /\ query_results # None) =>
        LET ctx == Val(summary_prompt)
            rows == Val(query_results)
            n == Len(rows)
            k == IF n < 10 THEN n ELSE 10
            sample == LinesOf(ctx, "Row")
            more == LinesOf(ctx, "more rows")
            totals == LinesOf(ctx, "Total rows retrieved")
        IN  /\ Len(sample) = k
            /\ Len(sample) <= 10
            /\ \A i \in 1..k : sample[i].data = rows[i] /\ sample[i].idx = i
            /\ n > 0 => (Len(totals) = 1 /\ totals[1].count = n)
            /\ (more # <<>>) <=> (n > 10)
            /\ n > 10 => (Len(more) = 1 /\ more[1].count = n - 10)
            /\ n = 0 => ctx = <<[line |-> "The query returned no data (0 rows)."]>>

\* a prompt for a result of twelve rows: ten sample rows and "2 more rows"
C18_Witness ==
    /\ service = "piagent"
    /\ pc = "done"
    /\ summary_prompt # None
    /\ query_results # None
    /\ Len(Val(query_results)) = 12
    /\ Len(LinesOf(Val(summary_prompt), "Row")) = 10
    /\ LinesOf(Val(summary_prompt), "more rows") = <<[line |-> "more rows", count |-> 2]>>

-----------------------------------------------------------------------------
(* Generation problems of the summarizer.                                  *)

\* a reply of which strip() leaves nothing
IsBlank(text) == \A i \in 1..Len(text) : text[i] \in {" ", "\n", "\t", "\r"}

\* C19: a generation problem of the summarizer never fails the request.  When
\* the summary model's call succeeds with empty text the answer is a
\* placeholder that notes the row count; when the model's initialisation or
\* its call raises, the answer is an error text that notes the row count; in
\* each case /ask responds 200 with dataframe_content holding the rows of the
\* executed query.
C19_SummarizerNeverFailsRequest ==
    (service = "piagent" /\ pc = "done" /\ query_results # None
        /\ (InTrace("call:summary_model") \/ InTrace("summary_model:init_error"))) =>
        LET n == Len(Val(query_results))
            answer == Val(response).answer
        IN  /\ response # None
            /\ Val(response).status = 200
            /\ Val(response).dataframe_content # None
            /\ Val(Val(response).dataframe_content).data = Val(query_results)
            /\ answer # ""
            /\ (summary_response_text # None /\ IsBlank(Val(summary_response_text))) =>
                answer = "Retrieved " \o ToString(n)
                    \o " records, but could not generate a specific summary."
            /\ InTrace("summary_model:init_error") =>
                \E m \in ModelInitErrors :
                    answer = "Retrieved " \o ToString(n)
                        \o " records. Error initializing summary model: " \o m
            /\ InTrace("summary_model:error") =>
                \E e \in ModelExceptions :
                    answer = "Successfully retrieved " \o ToString(n)
                        \o " records. An error occurred while generating a business summary: "
                        \o e.msg \o ExceptionExtras(e)

\* the summary model replied with whitespace only for a result of one row
C19_Witness ==
    /\ service = "piagent"
    /\ pc = "done"
    /\ summary_response_text = Some(<<" ">>)
    /\ query_results # None
    /\ Len(Val(query_results)) = 1
    /\ response # None
    /\ Val(response).status = 200
    /\ Val(response).answer = "Retrieved 1 records, but could not generate a specific summary."
    /\ Len(Val(Val(response).dataframe_content).data) = 1

-----------------------------------------------------------------------------
(* The cell coercion of the query executor.                                *)

RECURSIVE Pow10(_)
Pow10(n) == IF n = 0 THEN 1 ELSE 10 * Pow10(n - 1)

TwoDigits(n) == ToString(n \div 10) \o ToString(n % 10)

\* the ISO-8601 text of a date or of a date with a time of day
Iso8601(v) ==
    ToString(v.y) \o "-" \o TwoDigits(v.m) \o "-" \o TwoDigits(v.d)
        \o (IF v.py = "datetime"
            THEN "T" \o TwoDigits(v.hh) \o ":" \o TwoDigits(v.mm) \o ":" \o TwoDigits(v.ss)
            ELSE "")

\* the types JSON has a scalar for
JsonScalarTypes == {"str", "float", "int", "bool", "NoneType"}

\* what the policy makes of one cell: the first rule that applies decides
CoercedByPolicy(raw, cell) ==
    /\ cell.py \in JsonScalarTypes
    /\ CASE raw.py \in {"date", "datetime"} ->
                cell = [py |-> "str", text |-> Iso8601(raw)]
         [] raw.py \in {"float", "int", "str", "bool", "NoneType"} ->
                cell = raw
         [] raw.py = "Decimal" ->
                /\ cell.py = "float"
                /\ cell.unscaled * Pow10(raw.dec_scale) = raw.dec_unscaled * Pow10(cell.scale)
         [] OTHER ->
                cell = [py |-> "str", text |-> raw.repr]

\* C20: every cell of every row the executor returns is the cell BigQuery
\* delivered, coerced by the fixed policy: a temporal value is its ISO-8601
\* string; float, integer, string, boolean and null are unchanged; any other
\* type is the float it converts to (decimal 12.50 is 12.5) and, if it does
\* not convert, its string form; so every cell is a plain JSON scalar, and
\* rows, columns and their order are kept.
C20_CellCoercionPolicy ==
    (service = "piagent" /\ job_results # None) =>
        /\ query_results # None
        /\ Len(Val(query_results)) = Len(Val(job_results))
        /\ \A i \in 1..Len(Val(job_results)) :
            LET row == Val(job_results)[i]
                record == Val(query_results)[i]
            IN  /\ Len(record) = Len(row)
                /\ \A j \in 1..Len(row) :
                    /\ record[j].key = row[j].key
                    /\ CoercedByPolicy(row[j].value, record[j].value)
                    /\ row[j].value = [py |-> "Decimal", dec_unscaled |-> 1250, dec_scale |-> 2]
                        => record[j].value = [py |-> "float", unscaled |-> 125, scale |-> 1]

\* a result with the decimal 12.50 in one row and a null in the next: the
\* records hold the float 12.5 and the null
C20_Witness ==
    /\ service = "piagent"
    /\ job_results # None
    /\ query_results # None
    /\ Len(Val(job_results)) = 2
    /\ Val(job_results)[1][1].value = [py |-> "Decimal", dec_unscaled |-> 1250, dec_scale |-> 2]
    /\ Val(query_results)[1][1].value = [py |-> "float", unscaled |-> 125, scale |-> 1]
    /\ Val(job_results)[2][1].value = [py |-> "NoneType"]
    /\ Val(query_results)[2][1].value = [py |-> "NoneType"]

\* a result with a date with a time of day and an integer: the records hold
\* the ISO-8601 text and the integer
C20_WitnessTemporal ==
    /\ service = "piagent"
    /\ job_results # None
    /\ query_results # None
    /\ Len(Val(job_results)) >= 1
    /\ Val(job_results)[1][1].value = [py |-> "int", int |-> 7]
    /\ Val(query_results)[1][1].value = [py |-> "int", int |-> 7]
    /\ Val(query_results)[1][2].value = [py |-> "str", text |-> "2024-01-05T09:30:00"]

-----------------------------------------------------------------------------
(* The columns of dataframe_content.                                       *)

\* C21: whenever a response of piagent.py carries dataframe_content, its
\* columns are the keys of the first row of its data, in the row's order, and
\* the empty list when the data has no rows; a query that succeeded with zero
\* rows is answered with a dataframe_content that is present and has
\* data = [] and columns = [].
C21_ColumnsFromFirstRow ==
    (service = "piagent" /\ response # None /\ Val(response).status = 200) =>
        /\ Val(response).dataframe_content # None =>
            LET dataframe_content == Val(Val(response).dataframe_content)
            IN  IF dataframe_content.data = <<>>
                THEN dataframe_content.columns = <<>>
                ELSE /\ Len(dataframe_content.columns) = Len(dataframe_content.data[1])
                     /\ \A j \in 1..Len(dataframe_content.data[1]) :
                            dataframe_content.columns[j] = dataframe_content.data[1][j].key
        /\ job_results = Some(<<>>) =>
            /\ Val(response).dataframe_content # None
            /\ Val(Val(response).dataframe_content).data = <<>>
            /\ Val(Val(response).dataframe_content).columns = <<>>

\* a response with two rows of two columns: the columns are day, tags
C21_Witness ==
    /\ service = "piagent"
    /\ pc = "done"
    /\ response # None
    /\ Val(response).status = 200
    /\ Val(response).dataframe_content # None
    /\ Len(Val(Val(response).dataframe_content).data) = 2
    /\ Val(Val(response).dataframe_content).columns = <<"day", "tags">>

\* a response to a query that returned no row
C21_WitnessNoRows ==
    /\ service = "piagent"
    /\ pc = "done"
    /\ job_results = Some(<<>>)
    /\ response # None
    /\ Val(response).dataframe_content = Some([data |-> <<>>, columns |-> <<>>])

-----------------------------------------------------------------------------
(* The /health endpoints.                                                  *)

\* C22: /health of either service always answers HTTP 200 and reports the
\* availability of each dependency; the overall status is "ok" exactly when
\* every dependency it reports is available, and "error" otherwise.  For
\* piagent.py the dependencies are the BigQuery client, Vertex AI and the
\* BigQuery connectivity probe; for main.py the DataQnA instance and Vertex AI.
C22_HealthReportsDependencies ==
    health_response # None =>
        LET h == Val(health_response)
        IN  /\ h.status_code = 200
            /\ h.status \in {"ok", "error"}
            /\ service = "piagent" =>
                /\ (h.services.bigquery_client = "ok") <=> (bq_client # None)
                /\ (h.services.vertex_ai_initialized = "ok") <=> vertex_ai_initialized
                /\ (h.services.bigquery_connectivity = "ok") => (bq_client # None)
                /\ (h.status = "ok") <=>
                        /\ h.services.bigquery_client = "ok"
                        /\ h.services.vertex_ai_initialized = "ok"
                        /\ h.services.bigquery_connectivity = "ok"
            /\ service = "main" =>
                /\ (h.services.data_query_service_status = "ok") <=> (data_qna_instance # None)
                /\ (h.services.secondary_reasoning_service_status = "ok") <=> vertex_ai_initialized
                /\ (h.status = "ok") <=>
                        /\ h.services.data_query_service_status = "ok"
                        /\ h.services.secondary_reasoning_service_status = "ok"

\* piagent.py with both dependencies initialised and a failing probe: "error"
C22_Witness ==
    /\ service = "piagent"
    /\ bq_client # None
    /\ vertex_ai_initialized
    /\ health_response # None
    /\ Val(health_response).status_code = 200
    /\ Val(health_response).status = "error"
    /\ Val(health_response).services.bigquery_connectivity = "error"

\* main.py with both dependencies available: "ok"
C22_WitnessMain ==
    /\ service = "main"
    /\ health_response # None
    /\ Val(health_response).status = "ok"

-----------------------------------------------------------------------------
(* Several forbidden keywords in one string.                               *)

\* the least element of a non-empty set of indices
Least(S) == CHOOSE i \in S : \A j \in S : i <= j

\* C23: when a structurally valid SQL string contains several different
\* forbidden keywords, the rejection message names the one that comes first in
\* the list INSERT, UPDATE, DELETE, DROP, CREATE, ALTER, TRUNCATE, GRANT,
\* REVOKE, MERGE, wherever the keywords stand in the text (the scan stops at
\* that keyword: no later keyword of the list replaces it);
\* "SELECT 1; DROP TABLE t; INSERT INTO t" is rejected citing INSERT.
C23_FirstListedKeywordCited ==
    (Decided /\ generated_sql # None /\ Structured(SqlText) /\ ForbiddenIn(SqlText) # {}) =>
        /\ RejectedWith("Generated SQL contains a disallowed keyword: "
                \o <<"INSERT", "UPDATE", "DELETE", "DROP", "CREATE", "ALTER",
                     "TRUNCATE", "GRANT", "REVOKE", "MERGE">>[Least(ForbiddenIn(SqlText))]
                \o ". Only SELECT queries are permitted.")
        /\ SqlText = SELECTKW \o <<" ","1",";"," ">> \o DROPKW
                        \o <<" ","T","A","B","L","E"," ","t",";"," ">>
                        \o <<"I","N","S","E","R","T"," ","I","N","T","O"," ","t">> =>
                RejectedWith("Generated SQL contains a disallowed keyword: INSERT. Only SELECT queries are permitted.")

\* the example: DROP stands before INSERT in the text, INSERT is cited
C23_Witness ==
    /\ generated_sql # None
    /\ Len(SqlText) = 37
    /\ SubSeq(SqlText, 11, 14) = <<"D","R","O","P">>
    /\ SubSeq(SqlText, 25, 30) = <<"I","N","S","E","R","T">>
    /\ Cardinality(ForbiddenIn(SqlText)) = 2
    /\ RejectedWith("Generated SQL contains a disallowed keyword: INSERT. Only SELECT queries are permitted.")

-----------------------------------------------------------------------------
(* The validation verdict as a whole.                                      *)

\* C24: for every input of the validator, is_safe_for_readonly is false only
\* if is_valid_query_structure is true; once the verdict is reached the
\* validation message is non-empty exactly when the query is rejected; so the
\* fallback message "Generated SQL failed validation (structure or safety)."
\* is never the message and never the answer.
C24_VerdictConsistent ==
    /\ ~is_safe_for_readonly => is_valid_query_structure
    /\ validation_error_message # "Generated SQL failed validation (structure or safety)."
    /\ Decided =>
        /\ (validation_error_message # "") <=> InTrace("validate:reject")
        /\ InTrace("validate:reject") <=> (~is_valid_query_structure \/ ~is_safe_for_readonly)
        /\ InTrace("validate:reject") =>
            /\ response # None
            /\ Val(response).answer = validation_error_message
            /\ Val(response).answer # "Generated SQL failed validation (structure or safety)."

\* a WITH without SELECT, rejected with the message of the structure check
C24_Witness ==
    /\ InTrace("validate:reject")
    /\ ~is_valid_query_structure
    /\ is_safe_for_readonly
    /\ generated_sql # None
    /\ Len(SqlText) >= 4
    /\ SubSeq(SqlText, 1, 4) = <<"W","I","T","H">>
    /\ validation_error_message = "SQL starts with WITH but does not contain a SELECT statement."
    /\ Val(response).answer = validation_error_message

-----------------------------------------------------------------------------
(* One SQL string from the validator to the executor to the response.      *)

\* what holds in every state of a request of piagent.py
C25_SameSql ==
    service = "piagent" =>
        /\ executed_sql_query # None =>
            /\ InTrace("validate:accept")
            /\ executed_sql_query = generated_sql
            /\ (response # None /\ Val(response).status = 200) =>
                    Val(response).sql_query = executed_sql_query
        /\ (response # None /\ Val(response).status = 200
                /\ Val(response).dataframe_content # None) =>
            /\ Val(response).sql_query # None
            /\ Val(response).sql_query = executed_sql_query
            /\ InTrace("validate:accept")
            /\ InTrace("call:bigquery")
            /\ ~InTrace("bigquery:error")

\* the generated SQL is not rewritten while its request is handled
C25_Step ==
    (service = "piagent" /\ generated_sql # None /\ pc \notin {"boot", "idle", "done"}) =>
        generated_sql' = generated_sql

\* C25: in piagent.py the string the executor is called with is, character for
\* character, the string the validator accepted and the string returned as
\* sql_query (the generated SQL is never rewritten between validation,
\* execution and response); a response that carries dataframe_content has a
\* sql_query, which the validator accepted and whose execution completed
\* without error.
C25_ExecutedSqlIsValidatedSql == [](C25_SameSql) /\ [][C25_Step]_vars

\* an accepted query written in lower case was executed and is returned as is
C25_Witness ==
    /\ service = "piagent"
    /\ pc = "done"
    /\ executed_sql_query # None
    /\ \E i \in 1..Len(Val(executed_sql_query)) : Val(executed_sql_query)[i] = "s"
    /\ response # None
    /\ Val(response).status = 200
    /\ Val(response).dataframe_content # None
    /\ Val(response).sql_query = executed_sql_query

-----------------------------------------------------------------------------
(* What a completed ask_question call stores.                              *)

C26_Step ==
    /\ (service = "main" /\ pc = "q_ask" /\ pc' = "q_stream") =>
            current_history' = HistoryOf(conversation_histories, current_conv_id)
    /\ (service = "main" /\ trace' = Append(trace, "dataqna:end")) =>
        /\ DOMAIN conversation_histories' = DOMAIN conversation_histories \cup {current_conv_id}
        /\ conversation_histories'[current_conv_id] =
                current_history
                    \o <<[user_message |-> Some(Val(request_payload).question),
                          system_message |-> None]>>
                    \o replies_for_history
        /\ IsPrefixOf(HistoryOf(conversation_histories, current_conv_id),
                      conversation_histories'[current_conv_id])
        /\ \A c \in DOMAIN conversation_histories \ {current_conv_id} :
                conversation_histories'[c] = conversation_histories[c]

\* C26: in main.py, when an ask_question call with conversation id X has
\* consumed the stream without an error, the history stored for X is the
\* history read at the start of the call, then the user's input message, then
\* every streamed reply in arrival order, so the old history is a prefix of
\* the new one; the history of every other conversation id is unchanged.
C26_CompletedCallExtendsHistory == [][C26_Step]_vars

\* the second call on c1 has completed: the exchange of the first call, the
\* second question and the second call's reply are stored in that order
C26_Witness ==
    /\ service = "main"
    /\ pc = "q_answer"
    /\ InTrace("dataqna:end")
    /\ current_conv_id = "c1"
    /\ Len(current_history) = 2
    /\ Len(replies_for_history) = 1
    /\ "c1" \in DOMAIN conversation_histories
    /\ Len(conversation_histories["c1"]) = 4
    /\ SubSeq(conversation_histories["c1"], 1, 2) = current_history
    /\ conversation_histories["c1"][3].user_message # None
    /\ conversation_histories["c1"][4] = replies_for_history[1]

-----------------------------------------------------------------------------
(* What a failed ask_question call leaves behind.                          *)

\* a failed call: the stored history of its conversation is the one it read
C27_FailedCall ==
    (service = "main" /\ pc \in {"q_answer", "done"}
        /\ (InTrace("request:error") \/ InTrace("dataqna:error")
                \/ InTrace("request:escaped"))) =>
        /\ ~InTrace("dataqna:end")
        /\ HistoryOf(conversation_histories, current_conv_id) = current_history
        /\ (InTrace("request:error") \/ InTrace("dataqna:error")) =>
            /\ data_qna_result # None
            /\ Val(data_qna_result).answer \in AskQuestionFailureTexts
            /\ Val(data_qna_result).sql_query = None
            /\ Val(data_qna_result).dataframe_content = None
            /\ Val(data_qna_result).vega_lite_spec = None
            /\ Val(data_qna_result).conversation_id = current_conv_id
        /\ InTrace("request:escaped") =>
            /\ data_qna_result = None
            /\ response # None
            /\ Val(response).status = 500

\* within a call, only the end of an error-free stream writes the history map
C27_Step ==
    (service = "main" /\ pc \in {"q_ask", "q_stream"}
        /\ trace' # Append(trace, "dataqna:end")) =>
            conversation_histories' = conversation_histories

(* C27 as amended.  In main.py, when the construction of the request or     *)
(* the DataQnA call or stream raises, the conversation-history map is left  *)
(* exactly as it was before the call: neither the question nor a reply      *)
(* streamed so far is recorded.  When the construction raises ValueError    *)
(* or the call or stream raises anything, ask_question returns an answer    *)
(* that describes the error, with sql_query, dataframe_content and          *)
(* vega_lite_spec null even if data or SQL had been received; when the      *)
(* construction raises another exception ask_question returns nothing: the  *)
(* exception reaches the handler, which answers with a 500 transport error. *)
C27_FailedCallLeavesHistory == [](C27_FailedCall) /\ [][C27_Step]_vars

\* the stream failed after a data message: SQL and rows are in the fields,
\* the result has none of them and the history has nothing of this call
C27_Witness ==
    /\ service = "main"
    /\ pc = "q_answer"
    /\ InTrace("dataqna:error")
    /\ Len(replies_for_history) = 1
    /\ current_sql_query_from_data_message # None
    /\ last_processed_dataframe # None
    /\ data_qna_result # None
    /\ Val(data_qna_result).sql_query = None
    /\ Val(data_qna_result).dataframe_content = None
    /\ current_history = <<>>
    /\ current_conv_id \notin DOMAIN conversation_histories

(* C27 as claimed: whenever the construction of the request raises,         *)
(* ask_question returns an answer that describes the error.                 *)
C27_Original ==
    (service = "main" /\ pc \in {"q_answer", "done"}
        /\ (InTrace("request:error") \/ InTrace("request:escaped"))) =>
        /\ data_qna_result # None
        /\ Val(data_qna_result).answer # ""
        /\ Val(data_qna_result).sql_query = None

-----------------------------------------------------------------------------
(* Requests without a conversation id.                                     *)

\* the entries of the history map that a step adds or changes
EntriesWritten ==
    {c \in DOMAIN conversation_histories' :
        c \notin DOMAIN conversation_histories
            \/ conversation_histories'[c] # conversation_histories[c]}

\* a request without a conversation id, in every state of its handling
C28_GeneratedId ==
    (service = "main" /\ request_payload # None
        /\ Val(request_payload).conversation_id = None) =>
        /\ current_conv_id # ""
        /\ current_conv_id # "c1"
        /\ ~InTrace("reset")
        /\ InTrace("dataqna:end") =>
            /\ current_conv_id \in DOMAIN conversation_histories
            /\ conversation_histories[current_conv_id] =
                    <<[user_message |-> Some(Val(request_payload).question),
                       system_message |-> None]>> \o replies_for_history
        /\ (pc = "done" /\ response # None /\ Val(response).status = 200) =>
                Val(response).conversation_id = current_conv_id

C28_Step ==
    service = "main" =>
        \* the id generated for a request is one the history map does not hold
        /\ (requests_received' # requests_received
                /\ Val(request_payload').conversation_id = None) =>
                current_conv_id' \notin DOMAIN conversation_histories
        \* a completed call writes exactly one entry, the one of its id
        /\ trace' = Append(trace, "dataqna:end") => EntriesWritten = {current_conv_id}
        \* the reset step of a request without an id changes nothing
        /\ (pc = "q_reset" /\ Val(request_payload).conversation_id = None) =>
                conversation_histories' = conversation_histories

\* C28: in main.py a request without conversation_id is not stateless: the
\* handler generates a fresh id, a successful request stores its exchange in
\* the history map under that id and returns the id in the response, so every
\* successful /ask adds or extends exactly one history entry; and
\* reset_conversation = true has no effect when the request has no
\* conversation_id.
C28_NoIdIsNotStateless == [](C28_GeneratedId) /\ [][C28_Step]_vars

\* a request with reset_conversation = true and no id has been answered: its
\* exchange is stored under the generated id, which the response returns, and
\* the history of c1 is still there
C28_Witness ==
    /\ service = "main"
    /\ pc = "done"
    /\ request_payload # None
    /\ Val(request_payload).conversation_id = None
    /\ Val(request_payload).reset_conversation
    /\ InTrace("dataqna:end")
    /\ current_conv_id = "uuid-1"
    /\ DOMAIN conversation_histories = {"c1", "uuid-1"}
    /\ Len(conversation_histories["uuid-1"]) = 2
    /\ response # None
    /\ Val(response).status = 200
    /\ Val(response).conversation_id = "uuid-1"

-----------------------------------------------------------------------------
(* The final answer of main.py.                                            *)

\* what the secondary reasoner can return for a DataQnA answer
ReasonerReturns(initial) ==
    {"Up 10.",
     "DataQnA Initial: '" \o initial
        \o "'. Secondary reasoning could not generate a specific summary."}
    \cup {"DataQnA initial answer: '" \o initial
            \o "'. Error initializing secondary reasoning model: " \o m :
            m \in ModelInitErrors}
    \cup {"DataQnA Initial: '" \o initial
            \o "'. An error occurred during secondary reasoning: " \o e.msg :
            e \in ModelExceptions}

C29_WitnessReplaced ==
    /\ service = "main"
    /\ pc = "done"
    /\ vertex_ai_initialized
    /\ data_qna_result # None
    /\ Val(response).status = 200
    /\ Val(response).answer = "Up 10."
    /\ Val(data_qna_result).answer # "Up 10."

-----------------------------------------------------------------------------
(* The answer of ask_question when DataQnA sent no text.                   *)

\* no text part received in this call has a character that is not white space
NoTextReceived ==
    \A i \in 1..Len(accumulated_final_text_parts) :
        IsBlank(accumulated_final_text_parts[i])

\* C30: in main.py, when the stream of DataQnA ends without an error and
\* without text, ask_question answers with a placeholder chosen in a fixed
\* order: a chart was captured, else tabular data was captured, else SQL was
\* captured, else the no-output placeholder; so its answer is never empty.
\* The dataframe, chart and SQL fields are reset at the start of every call:
\* what a call returns was streamed to that call, never to an earlier one.
C30_PlaceholderPrecedence ==
    (service = "main" /\ data_qna_result # None) =>
        LET result == Val(data_qna_result)
        IN  /\ result.answer # ""
            /\ InTrace("dataqna:end") =>
                /\ NoTextReceived =>
                    result.answer =
                        IF last_processed_chart_spec # None
                        THEN "[DataQnA provided a chart. No additional text summary.]"
                        ELSE IF last_processed_dataframe # None
                        THEN "[DataQnA provided tabular data. No additional text summary.]"
                        ELSE IF current_sql_query_from_data_message # None
                        THEN "[DataQnA generated SQL. No specific text summary.]"
                        ELSE "[DataQnA provided no specific text, data, or chart output.]"
                /\ last_processed_chart_spec # None <=>
                        \E c \in ChartsStreamed : c # None
                /\ current_sql_query_from_data_message # None <=>
                        \E d \in DataStreamed : d.generated_sql # ""
                /\ last_processed_dataframe # None => DataStreamed # {}
                /\ result.vega_lite_spec # None => result.vega_lite_spec \in ChartsStreamed
                /\ result.sql_query # None =>
                        \E d \in DataStreamed : d.generated_sql = Val(result.sql_query)
                /\ result.dataframe_content # None => DataStreamed # {}

\* a second call received nothing, after a first call that received a chart:
\* the answer is the no-output placeholder
C30_Witness ==
    /\ service = "main"
    /\ requests_received = 2
    /\ InTrace("dataqna:end")
    /\ messages_received = 1
    /\ replies_for_history = <<>>
    /\ current_history # <<>>
    /\ \E i \in 1..Len(current_history) :
            current_history[i].system_message # None
                /\ Val(current_history[i].system_message).chart # None
    /\ data_qna_result # None
    /\ Val(data_qna_result).answer = "[DataQnA provided no specific text, data, or chart output.]"
    /\ Val(data_qna_result).vega_lite_spec = None

\* SQL was captured but no table and no chart: the SQL placeholder
C30_WitnessSql ==
    /\ service = "main"
    /\ InTrace("dataqna:end")
    /\ data_qna_result # None
    /\ Val(data_qna_result).sql_query # None
    /\ Val(data_qna_result).dataframe_content = None
    /\ Val(data_qna_result).answer = "[DataQnA generated SQL. No specific text summary.]"

\* a chart and a table were captured: the chart placeholder
C30_WitnessChartAndData ==
    /\ service = "main"
    /\ InTrace("dataqna:end")
    /\ data_qna_result # None
    /\ Val(data_qna_result).dataframe_content # None
    /\ Val(data_qna_result).vega_lite_spec # None
    /\ Val(data_qna_result).answer = "[DataQnA provided a chart. No additional text summary.]"

=============================================================================
